---- MODULE Spec2Model ----
(***************************************************************************)
(* Model of the Cognito user administration utility                        *)
(* (src/src/cognito_user): the two command line programs create_users and  *)
(* delete_users, and the handlers of the terminal UI screens, running      *)
(* against a model of the Cognito user pool they call.                     *)
(*                                                                         *)
(* Python strings are TLA+ strings; raw text that the code splits, strips  *)
(* or parses is a sequence of one-character strings.  Every remote call is *)
(* one step whose outcome (success or a ClientError) the service chooses.  *)
(***************************************************************************)
EXTENDS Integers, Sequences, FiniteSets, TLC

\* ------------------------------------------------------------------ bounds
\* Largest num_users given to a bulk create.
MaxUsers == 2
\* Largest number of entries the service puts on one page of a listing.
MaxPageSize == 2
\* Longest value of EXCLUDE_USERS given to get_excluded_users alone.
MaxTextLen == 4

\* ---------------------------------------------------------- Python values
\* Python's None where a string is expected.
None == "<None>"

\* Truth value of an Optional[str]: None and "" are falsy.
Truthy(s) == s # None /\ s # ""

\* The characters str.strip() removes (those that occur in the inputs).
Whitespace == {" ", "\t"}

RECURSIVE LStrip(_)
LStrip(cs) ==
    IF cs # <<>> /\ Head(cs) \in Whitespace THEN LStrip(Tail(cs)) ELSE cs

RECURSIVE RStrip(_)
RStrip(cs) ==
    IF cs # <<>> /\ cs[Len(cs)] \in Whitespace
    THEN RStrip(SubSeq(cs, 1, Len(cs) - 1))
    ELSE cs

\* Variant: str.lstrip().
StripLeft(cs) == LStrip(cs)

\* str.strip() on a text given as a sequence of characters.
Strip(cs) == RStrip(LStrip(cs))

\* The Python string a sequence of characters spells.
RECURSIVE Join(_)
Join(cs) == IF cs = <<>> THEN "" ELSE Head(cs) \o Join(Tail(cs))

DigitChars == <<"0", "1", "2", "3", "4", "5", "6", "7", "8", "9">>

IsDigit(c) == \E d \in 1..Len(DigitChars) : DigitChars[d] = c

DigitValue(c) == (CHOOSE d \in 1..Len(DigitChars) : DigitChars[d] = c) - 1

RECURSIVE DigitsValue(_)
DigitsValue(cs) ==
    IF cs = <<>> THEN 0
    ELSE 10 * DigitsValue(SubSeq(cs, 1, Len(cs) - 1)) + DigitValue(cs[Len(cs)])

AllDigits(cs) == cs # <<>> /\ \A k \in 1..Len(cs) : IsDigit(cs[k])

\* int(text): <<n>> for an optionally signed decimal numeral (int() strips
\* surrounding whitespace itself), <<>> where int() raises ValueError.
ParseInt(text) ==
    LET cs   == Strip(text)
        sign == IF cs # <<>> /\ Head(cs) \in {"+", "-"} THEN Head(cs) ELSE ""
        ds   == IF sign = "" THEN cs ELSE Tail(cs)
    IN  IF AllDigits(ds)
        THEN <<(IF sign = "-" THEN 0 - DigitsValue(ds) ELSE DigitsValue(ds))>>
        ELSE <<>>

\* Variant: the numbering of range(num_users), from 0.
TestUserEmailFromZero(i) == "testuser" \o ToString(i - 1) \o "@example.com"

\* f"testuser{i}@example.com"
TestUserEmail(i) == "testuser" \o ToString(i) \o "@example.com"

\* ----------------------------------------------------------------- state
VARIABLES
    session,         \* what the behaviour exercises: "cli" (runs of the two
                     \* command line programs), "create_screen" (a TUI
                     \* session on the create screen), "users_screen" (one
                     \* on the users screen: its table, the selection, the
                     \* deletes), "user_screens" (one that goes through the
                     \* users screen to the view and the edit screen of a
                     \* user and updates the user), "user_groups" (one that
                     \* opens the view and the edit screen from the rows of
                     \* the users screen, also from rows a failed Delete All
                     \* left behind, and changes the groups of the user),
                     \* "functions" (the group functions on their own)
    env_pool_id,     \* environment: AWS_COGNITO_USER_POOL_ID (None when unset)
    env_exclude,     \* environment: EXCLUDE_USERS, a text (<<None>> when unset)
    pool,            \* service: the user records of the pool
    pool_groups,     \* service: the group names of the pool
    membership,      \* service: the <<Username, GroupName>> memberships
    prog,            \* the entry point or handler that is running
    pc,              \* its position
    argv,            \* its inputs
    loc,             \* its local variables
    calls,           \* the remote calls it made so far, in order
    ret,             \* <<value>> once the routine it drives returned
    exit_code,       \* <<code>> once a command line program exited
    msg,             \* last line printed / message of the status bar of
                     \* the screen shown
    screens,         \* TUI: the stack of screens, the top one last
    status_below,    \* TUI: the messages of the status bars of the screens
                     \* under the top one, in the order of the stack
    config_text,     \* settings screen: the text of its config-display
    table,           \* users screen: the rows of the table
    selected_users,  \* users screen: the selection set
    group_options,   \* create / edit screen: options of the group Select
    current_groups,  \* edit screen: the groups of the edited user
    edit_username,   \* view / edit screen: self.username
    edit_form,       \* edit screen: the values of its form widgets
    view_text,       \* view screen: the texts of its three Static widgets
    pool0            \* history: the pool when the running handler started

env  == <<session, env_pool_id, env_exclude>>
svc  == <<pool, pool_groups, membership>>
run  == <<prog, pc, argv, loc, calls, ret, exit_code, msg>>
ui   == <<screens, status_below, config_text, table, selected_users,
          group_options, current_groups, edit_username, edit_form, view_text>>
hist == <<pool0>>
vars == <<env, svc, run, ui, hist>>

\* ------------------------------------------------- the Cognito user pool
\* Usernames the pool can hold beside the test users, in the order in which
\* the service lists them.
OtherUsers == <<"u", "v">>

\* All usernames, in the service's listing order.
UserKeys == OtherUsers \o [k \in 1..MaxUsers |-> TestUserEmail(k)]

Exists(username) == \E r \in pool : r.Username = username

UserRecord(username) == CHOOSE r \in pool : r.Username = username

\* Users that were in the pool before the tool ran: "u" signs in with the
\* email "e"; "v" has no email attribute.
PreUsers ==
    { [Username |-> "u", UserStatus |-> "CONFIRMED", Enabled |-> TRUE,
       Attributes |-> <<[Name |-> "sub", Value |-> "1"],
                        [Name |-> "email", Value |-> "e"]>>],
      [Username |-> "v", UserStatus |-> "CONFIRMED", Enabled |-> FALSE,
       Attributes |-> <<>>] }

\* A provider error: botocore's ClientError, e.response["Error"].
OK == [Code |-> "OK", Message |-> None]

Errors(codes, messages) ==
    {[Code |-> c, Message |-> m] : c \in codes, m \in messages}

\* Outcomes the service can give to admin_create_user: the username is
\* unique in the pool.
CreateOutcomes(username) ==
    IF Exists(username)
    THEN Errors({"UsernameExistsException", "InternalErrorException"}, {"boom"})
    ELSE {OK} \cup Errors({"InternalErrorException"}, {"boom"})

\* Outcomes of admin_set_user_password.
SetPasswordOutcomes(username) ==
    IF Exists(username)
    THEN {OK} \cup Errors({"InvalidPasswordException"}, {"boom"})
    ELSE Errors({"UserNotFoundException"}, {"boom"})

\* Outcomes of admin_delete_user.
DeleteOutcomes(username) ==
    IF Exists(username)
    THEN {OK} \cup Errors({"TooManyRequestsException"}, {"boom"})
    ELSE Errors({"UserNotFoundException"}, {"boom"})

\* Outcomes of the listing calls, before the page is chosen.
ListOutcomes == {OK} \cup Errors({"TooManyRequestsException"}, {"boom"})

\* str(e) of a ClientError, as botocore formats it.
ErrStr(e, op) ==
    "An error occurred (" \o e.Code \o ") when calling the " \o op
        \o " operation: " \o (IF e.Message = None THEN "Unknown" ELSE e.Message)

\* The opaque continuation token of a listing that stopped after the k-th key.
EncodeToken(k) == "tok" \o ToString(k)

DecodeToken(token, n) ==
    IF token = None THEN 0 ELSE CHOOSE k \in 1..n : EncodeToken(k) = token

\* The keys among `present` that come after the k-th key, in key order.
RECURSIVE KeysAfter(_, _, _)
KeysAfter(keys, present, k) ==
    IF k >= Len(keys) THEN <<>>
    ELSE (IF keys[k + 1] \in present THEN <<keys[k + 1]>> ELSE <<>>)
         \o KeysAfter(keys, present, k + 1)

\* The pages the service can answer a listing request with; token = None
\* stands for a request without the parameter.  A page holds
\* 1..MaxPageSize entries; the last page carries no token, or an empty one.
PageResponses(keys, present, token) ==
    LET rest == KeysAfter(keys, present, DecodeToken(token, Len(keys)))
        top  == IF Len(rest) < MaxPageSize THEN Len(rest) ELSE MaxPageSize
        low  == IF Len(rest) = 0 THEN 0 ELSE 1
        rank(x) == CHOOSE k \in 1..Len(keys) : keys[k] = x
    IN  { [Items |-> SubSeq(rest, 1, n),
           NextToken |-> IF n < Len(rest) THEN EncodeToken(rank(rest[n])) ELSE last]
          : n \in low..top, last \in {None, ""} }

\* Responses to list_users(PaginationToken=token).
ListUsersResponses(token) ==
    { [Users |-> [j \in 1..Len(r.Items) |-> UserRecord(r.Items[j])],
       PaginationToken |-> r.NextToken]
      : r \in PageResponses(UserKeys, {u.Username : u \in pool}, token) }

\* The groups of the pool, in the order in which the service lists them.
GroupKeys == <<"b", "a">>

\* Responses to list_groups(NextToken=token).
ListGroupsResponses(token) ==
    { [Groups |-> [j \in 1..Len(r.Items) |-> [GroupName |-> r.Items[j]]],
       NextToken |-> r.NextToken]
      : r \in PageResponses(GroupKeys, pool_groups, token) }

\* Responses to admin_list_groups_for_user(Username, NextToken=token).
ListGroupsForUserResponses(username, token) ==
    { [Groups |-> [j \in 1..Len(r.Items) |-> [GroupName |-> r.Items[j]]],
       NextToken |-> r.NextToken]
      : r \in PageResponses(GroupKeys,
                            {g \in pool_groups : <<username, g>> \in membership},
                            token) }

\* Outcomes of admin_add_user_to_group and admin_remove_user_from_group; the
\* error may carry a message, an empty message, or none.
GroupOutcomes(username, group) ==
    IF Exists(username) /\ group \in pool_groups
    THEN {OK} \cup Errors({"TooManyRequestsException"}, {None, "", "boom"})
    ELSE Errors({"UserNotFoundException"}, {None, "", "boom"})

\* Outcomes of admin_get_user.
GetUserOutcomes(username) ==
    IF Exists(username)
    THEN {OK} \cup Errors({"TooManyRequestsException"}, {"boom"})
    ELSE Errors({"UserNotFoundException"}, {"boom"})

\* One remote call, as the run's log records it: the routine that made it,
\* the operation, its parameters, whether it succeeded, and the token of
\* the response of a listing call.
Call(routine, op, username, token, group, permanent, ok, next_token) ==
    [routine |-> routine, op |-> op, Username |-> username, Token |-> token,
     GroupName |-> group, Permanent |-> permanent, ok |-> ok,
     NextToken |-> next_token]

UserCall(routine, op, username, permanent, ok) ==
    Call(routine, op, username, None, None, permanent, ok, None)

ListCall(routine, op, username, token, ok, next_token) ==
    Call(routine, op, username, token, None, FALSE, ok, next_token)

GroupCall(routine, op, username, group, ok) ==
    Call(routine, op, username, None, group, FALSE, ok, None)

\* ------------------------------------------------------ inputs and locals
NoneText == <<None>>

InitArgv ==
    [email |-> None, num_users |-> <<>>, exclude |-> <<>>, text |-> <<>>,
     phone |-> <<>>, group |-> None, row |-> 0]

InitLoc ==
    [email |-> None, i |-> 0, num_users |-> 0,
     created_count |-> 0, failed_count |-> 0, group_added |-> 0,
     selected_group |-> None, excluded |-> {},
     pagination_token |-> None, page |-> <<>>,
     deleted_count |-> 0, skipped_count |-> 0,
     response_token |-> None, users |-> <<>>, groups |-> <<>>,
     group_result |-> <<>>, usernames |-> {}, pending |-> {},
     attributes |-> <<>>]

\* The three Static widgets of the view screen as ViewUserScreen composes
\* them: user details, group membership, user attributes.
InitView == [details |-> "", groups |-> "", attributes |-> ""]

\* The widgets of the edit form as EditUserScreen composes them: empty
\* Inputs and Checkboxes without a value, which are off.
InitForm ==
    [enabled |-> FALSE, email |-> "", phone |-> "",
     email_verified |-> FALSE, phone_verified |-> FALSE]

\* Values of --email / -e: absent, empty, a username.
EmailArgs == {None, "", "v"}

\* Texts of the positional num_users: absent, no integer, integers.
NumUsersArgs ==
    {NoneText, <<"x">>, <<"-", "1">>, <<"0">>}
        \cup {<<DigitChars[n + 1]>> : n \in 1..MaxUsers}

\* Variant: "if user_pool_id is None".
PoolIdIsNone(user_pool_id) == user_pool_id = None

\* Variant: the check of the pool ID never stops a handler.
PoolIdNeverMissing(user_pool_id) == FALSE

\* "if not user_pool_id"
PoolIdMissing(user_pool_id) == ~Truthy(user_pool_id)

\* Variant: "Permanent=False".
SetPasswordTemporary == FALSE

\* "Permanent=True" of every admin_set_user_password call.
SetPasswordPermanent == TRUE

\* ---------------------------------------------------------------- config
\* get_user_pool_id(): os.environ.get("AWS_COGNITO_USER_POOL_ID")
GetUserPoolId == env_pool_id

\* os.environ.get(name, default) on a text variable.
EnvGet(value, default) == IF value = NoneText THEN default ELSE value

\* text.split(","): the pieces of the text between its commas.
RECURSIVE SplitComma(_)
SplitComma(cs) ==
    IF \E k \in 1..Len(cs) : cs[k] = ","
    THEN LET k == CHOOSE j \in 1..Len(cs) :
                      cs[j] = "," /\ \A h \in 1..(j - 1) : cs[h] # ","
         IN  <<SubSeq(cs, 1, k - 1)>> \o SplitComma(SubSeq(cs, k + 1, Len(cs)))
    ELSE <<cs>>

\* [u.strip() for u in parts if u.strip()]
RECURSIVE StrippedNonEmpty(_)
StrippedNonEmpty(parts) ==
    IF parts = <<>> THEN <<>>
    ELSE (IF Strip(Head(parts)) # <<>> THEN <<Join(Strip(Head(parts)))>> ELSE <<>>)
         \o StrippedNonEmpty(Tail(parts))

\* get_excluded_users() when EXCLUDE_USERS has the given value.
GetExcludedUsers(value) ==
    LET excluded == EnvGet(value, <<>>)
    IN  IF excluded = <<>> THEN <<>> ELSE StrippedNonEmpty(SplitComma(excluded))

\* set(list)
SeqToSet(s) == {s[k] : k \in 1..Len(s)}

\* ---------------------------------------------------------- create_users
\* The UserAttributes create_single_user and create_test_users send.
NewUserAttributes(email, phone) ==
    << [Name |-> "email", Value |-> email],
       [Name |-> "email_verified", Value |-> "true"],
       [Name |-> "phone_number", Value |-> phone],
       [Name |-> "phone_number_verified", Value |-> "true"] >>

\* Effect of a successful admin_create_user on the pool.
PoolWithUser(username, attributes) ==
    pool \cup {[Username |-> username, UserStatus |-> "FORCE_CHANGE_PASSWORD",
                Enabled |-> TRUE, Attributes |-> attributes]}

\* Effect of a successful admin_set_user_password(Permanent=True).
PoolWithPassword(username, permanent) ==
    { IF r.Username = username /\ permanent
      THEN [r EXCEPT !.UserStatus = "CONFIRMED"] ELSE r : r \in pool }

\* The except ClientError branch of both create routines: the message.
CreateFailureMessage(e, email, single, op) ==
    IF e.Code = "UsernameExistsException"
    THEN (IF single THEN "Error: User already exists: " ELSE "User already exists: ")
         \o email
    ELSE (IF single THEN "Error: Failed to create " ELSE "Failed to create ")
         \o email \o ": " \o ErrStr(e, op)

\* main() of create_users: the arguments are parsed (num_users with
\* type=int), then the pool-ID check, then the entry into create_single_user
\* or create_test_users up to its first remote call.
CreateUsersMain ==
    /\ session = "cli"
    /\ pc \in {"idle", "done"}
    /\ \E email \in EmailArgs, text \in NumUsersArgs :
        LET n == IF text = NoneText THEN <<>> ELSE ParseInt(text) IN
        /\ prog' = "create_users.main"
        /\ argv' = [InitArgv EXCEPT !.email = email, !.text = text, !.num_users = n]
        /\ calls' = <<>>
        /\ IF text # NoneText /\ n = <<>>
           THEN /\ msg' = "error: argument num_users: invalid int value"
                /\ exit_code' = <<2>>
                /\ ret' = <<>>
                /\ loc' = InitLoc
                /\ pc' = "done"
           ELSE IF PoolIdMissing(GetUserPoolId)
           THEN /\ msg' = "Error: AWS_COGNITO_USER_POOL_ID environment variable not set"
                /\ exit_code' = <<1>>
                /\ ret' = <<>>
                /\ loc' = InitLoc
                /\ pc' = "done"
           ELSE IF Truthy(email)
           THEN /\ loc' = [InitLoc EXCEPT !.email = email]
                /\ pc' = "create_single_user:admin_create_user"
                /\ exit_code' = <<>>
                /\ ret' = <<>>
                /\ msg' = ""
           ELSE IF n = <<>>
           THEN /\ msg' = "error: num_users is required when --email is not provided"
                /\ exit_code' = <<2>>
                /\ ret' = <<>>
                /\ loc' = InitLoc
                /\ pc' = "done"
           ELSE IF n[1] < 1
           THEN /\ loc' = [InitLoc EXCEPT !.num_users = n[1], !.i = 1]
                /\ msg' = "  Failed/Skipped: 0 users"
                /\ ret' = << <<0, 0>> >>
                /\ exit_code' = <<0>>
                /\ pc' = "done"
           ELSE /\ loc' = [InitLoc EXCEPT !.num_users = n[1], !.i = 1,
                                          !.email = TestUserEmail(1)]
                /\ pc' = "create_test_users:admin_create_user"
                /\ exit_code' = <<>>
                /\ ret' = <<>>
                /\ msg' = ""
    /\ pool0' = pool
    /\ UNCHANGED <<env, svc, ui>>

\* Variant: "return 1 if success else 0".
SingleExitCodeInverted(success) == IF success THEN 1 ELSE 0

\* main(): "return 0 if success else 1" after create_single_user.
SingleExitCode(success) == IF success THEN 0 ELSE 1

\* Variant: "return True" in the except branch too.
SingleUserResultTrue(e) == TRUE

\* create_single_user: "return True" after both calls, "return False" in
\* "except ClientError".
SingleUserResult(e) == e = OK

\* create_single_user: the admin_create_user call and its except branch.
CreateSingleUser_AdminCreateUser ==
    /\ prog = "create_users.main"
    /\ pc = "create_single_user:admin_create_user"
    /\ \E e \in CreateOutcomes(loc.email) :
        /\ calls' = Append(calls,
               UserCall("create_single_user", "admin_create_user", loc.email, FALSE, e = OK))
        /\ IF e = OK
           THEN /\ pool' = PoolWithUser(loc.email,
                               NewUserAttributes(loc.email, "+6587654321"))
                /\ pc' = "create_single_user:admin_set_user_password"
                /\ UNCHANGED <<ret, exit_code, msg>>
           ELSE /\ pool' = pool
                /\ msg' = CreateFailureMessage(e, loc.email, TRUE, "AdminCreateUser")
                /\ ret' = <<SingleUserResult(e)>>
                /\ exit_code' = <<SingleExitCode(SingleUserResult(e))>>
                /\ pc' = "done"
    /\ UNCHANGED <<env, hist, pool_groups, membership, prog, argv, loc, ui>>

\* create_single_user: the admin_set_user_password call, then the return.
CreateSingleUser_AdminSetUserPassword ==
    /\ prog = "create_users.main"
    /\ pc = "create_single_user:admin_set_user_password"
    /\ \E e \in SetPasswordOutcomes(loc.email) :
        /\ calls' = Append(calls,
               UserCall("create_single_user", "admin_set_user_password", loc.email, SetPasswordPermanent, e = OK))
        /\ IF e = OK
           THEN /\ pool' = PoolWithPassword(loc.email, SetPasswordPermanent)
                /\ msg' = "Successfully created user: " \o loc.email
                /\ ret' = <<SingleUserResult(e)>>
                /\ exit_code' = <<SingleExitCode(SingleUserResult(e))>>
           ELSE /\ pool' = pool
                /\ msg' = CreateFailureMessage(e, loc.email, TRUE, "AdminSetUserPassword")
                /\ ret' = <<SingleUserResult(e)>>
                /\ exit_code' = <<SingleExitCode(SingleUserResult(e))>>
        /\ pc' = "done"
    /\ UNCHANGED <<env, hist, pool_groups, membership, prog, argv, loc, ui>>

\* Variant: "created_count += 1" left out.
CountCreatedNot(l) == l

\* Variant: the except branch does not count.
CountFailedNot(l) == l

\* Variant: the except branch counts the user as created.
CountFailedAsCreated(l) == [l EXCEPT !.created_count = l.created_count + 1]

\* "created_count += 1" / "failed_count += 1"
CountCreated(l) == [l EXCEPT !.created_count = l.created_count + 1]

CountFailed(l) == [l EXCEPT !.failed_count = l.failed_count + 1]

\* "for i in range(1, num_users + 1)": whether i was the last value.
RangeExhausted(l) == l.i >= l.num_users

\* Variant: the loop stays on the same i.
NextTestUserSame(l) == l

\* The next iteration: i and the email synthesized from it.
NextTestUser(l) == [l EXCEPT !.i = l.i + 1, !.email = TestUserEmail(l.i + 1)]

\* create_test_users after the body ran for user i with locals l: the next
\* iteration, or the summary, the return of (created_count, failed_count)
\* and main's "return 0".
CreateTestUsers_Continue(l, line) ==
    IF RangeExhausted(l)
    THEN /\ loc' = l
         /\ msg' = "  Failed/Skipped: " \o ToString(l.failed_count) \o " users"
         /\ ret' = << <<l.created_count, l.failed_count>> >>
         /\ exit_code' = <<0>>
         /\ pc' = "done"
    ELSE /\ loc' = NextTestUser(l)
         /\ msg' = line
         /\ pc' = "create_test_users:admin_create_user"
         /\ UNCHANGED <<ret, exit_code>>

\* create_test_users: the admin_create_user call of iteration i.
CreateTestUsers_AdminCreateUser ==
    /\ prog = "create_users.main"
    /\ pc = "create_test_users:admin_create_user"
    /\ \E e \in CreateOutcomes(loc.email) :
        /\ calls' = Append(calls,
               UserCall("create_test_users", "admin_create_user", loc.email, FALSE, e = OK))
        /\ IF e = OK
           THEN /\ pool' = PoolWithUser(loc.email,
                               NewUserAttributes(loc.email, "+6587654321"))
                /\ pc' = "create_test_users:admin_set_user_password"
                /\ UNCHANGED <<loc, ret, exit_code, msg>>
           ELSE /\ pool' = pool
                /\ CreateTestUsers_Continue(CountFailed(loc),
                       CreateFailureMessage(e, loc.email, FALSE, "AdminCreateUser"))
    /\ UNCHANGED <<env, hist, pool_groups, membership, prog, argv, ui>>

\* create_test_users: the admin_set_user_password call of iteration i.
CreateTestUsers_AdminSetUserPassword ==
    /\ prog = "create_users.main"
    /\ pc = "create_test_users:admin_set_user_password"
    /\ \E e \in SetPasswordOutcomes(loc.email) :
        /\ calls' = Append(calls,
               UserCall("create_test_users", "admin_set_user_password", loc.email, SetPasswordPermanent, e = OK))
        /\ IF e = OK
           THEN /\ pool' = PoolWithPassword(loc.email, SetPasswordPermanent)
                /\ CreateTestUsers_Continue(CountCreated(loc),
                       "Created user: " \o loc.email)
           ELSE /\ pool' = pool
                /\ CreateTestUsers_Continue(CountFailed(loc),
                       CreateFailureMessage(e, loc.email, FALSE, "AdminSetUserPassword"))
    /\ UNCHANGED <<env, hist, pool_groups, membership, prog, argv, ui>>

\* ---------------------------------------------------------- delete_users
\* Values of --exclude.
ExcludeArgs == {<<>>, <<"v">>, <<"u">>}

\* The token parameter of a listing request: "if token: kwargs[...] = token".
SentToken(token) == IF Truthy(token) THEN token ELSE None

\* Variant: the loop ends after the first page.
LastPageAlways(token) == TRUE

\* Variant: "if pagination_token is None: break".
LastPageIsNone(token) == token = None

\* "if not pagination_token: break"
LastPage(token) == ~Truthy(token)

\* The email of a listed user: the value of the first attribute named
\* "email", "" when there is none.
RECURSIVE EmailOf(_)
EmailOf(attributes) ==
    IF attributes = <<>> THEN ""
    ELSE IF Head(attributes).Name = "email" THEN Head(attributes).Value
    ELSE EmailOf(Tail(attributes))

\* delete_users.delete_all_users: "if username in excluded_set"
CliIsExcluded(user, excluded) == user.Username \in excluded

\* Effect of a successful admin_delete_user on the service.
PoolWithoutUser(username) == {r \in pool : r.Username # username}

MembershipWithoutUser(username) == {m \in membership : m[1] # username}

\* Variant: "excluded_users = get_excluded_users()".
CombinedExcludedEnvOnly(from_env, from_args) == from_env

\* "excluded_users = get_excluded_users() + args.exclude"
CombinedExcluded(from_env, from_args) == from_env \o from_args

\* main() of delete_users: the pool-ID check, the union of the two exclusion
\* sources, and delete_all_users up to its first list_users call.
DeleteUsersMain ==
    /\ session = "cli"
    /\ pc \in {"idle", "done"}
    /\ \E exclude \in ExcludeArgs :
        /\ prog' = "delete_users.main"
        /\ argv' = [InitArgv EXCEPT !.exclude = exclude]
        /\ calls' = <<>>
        /\ ret' = <<>>
        /\ IF PoolIdMissing(GetUserPoolId)
           THEN /\ msg' = "Error: AWS_COGNITO_USER_POOL_ID environment variable not set"
                /\ exit_code' = <<1>>
                /\ loc' = InitLoc
                /\ pc' = "done"
           ELSE /\ loc' = [InitLoc EXCEPT
                              !.excluded = SeqToSet(CombinedExcluded(
                                               GetExcludedUsers(env_exclude), exclude))]
                /\ exit_code' = <<>>
                /\ msg' = ""
                /\ pc' = "delete_all_users:list_users"
    /\ pool0' = pool
    /\ UNCHANGED <<env, svc, ui>>

\* Variant: the error is reported inside the loop, which asks again.
DeleteAllUsers_AbortContinues(e, op) ==
    /\ msg' = "An error occurred: " \o ErrStr(e, op)
    /\ pc' = "delete_all_users:list_users"
    /\ UNCHANGED <<ret, exit_code>>

\* delete_all_users: "except ClientError", then "return deleted_count,
\* skipped_count" and main's "return 0".
DeleteAllUsers_Abort(e, op) ==
    /\ msg' = "An error occurred: " \o ErrStr(e, op)
    /\ ret' = << <<loc.deleted_count, loc.skipped_count>> >>
    /\ exit_code' = <<0>>
    /\ pc' = "done"

\* delete_all_users: one list_users request.
DeleteAllUsers_ListUsers ==
    /\ prog = "delete_users.main"
    /\ pc = "delete_all_users:list_users"
    /\ \E e \in ListOutcomes :
        IF e = OK
        THEN \E response \in ListUsersResponses(SentToken(loc.pagination_token)) :
            /\ calls' = Append(calls,
                   ListCall("delete_all_users", "list_users", None,
                            SentToken(loc.pagination_token), TRUE,
                            response.PaginationToken))
            /\ loc' = [loc EXCEPT !.page = response.Users,
                                  !.response_token = response.PaginationToken]
            /\ pc' = "delete_all_users:for"
            /\ UNCHANGED <<ret, exit_code, msg>>
        ELSE /\ calls' = Append(calls,
                    ListCall("delete_all_users", "list_users", None,
                             SentToken(loc.pagination_token), FALSE, None))
             /\ DeleteAllUsers_Abort(e, "ListUsers")
             /\ loc' = loc
    /\ UNCHANGED <<env, hist, svc, prog, argv, ui>>

\* delete_all_users: an excluded user of the page is skipped.
DeleteAllUsers_Skip ==
    /\ prog = "delete_users.main"
    /\ pc = "delete_all_users:for"
    /\ loc.page # <<>>
    /\ CliIsExcluded(Head(loc.page), loc.excluded)
    /\ loc' = [loc EXCEPT !.page = Tail(loc.page),
                          !.skipped_count = loc.skipped_count + 1]
    /\ msg' = "Skipping excluded user: " \o Head(loc.page).Username
    /\ UNCHANGED <<env, hist, svc, prog, pc, argv, calls, ret, exit_code, ui>>

\* delete_all_users: the admin_delete_user call for the next user of the page.
DeleteAllUsers_AdminDeleteUser ==
    /\ prog = "delete_users.main"
    /\ pc = "delete_all_users:for"
    /\ loc.page # <<>>
    /\ ~CliIsExcluded(Head(loc.page), loc.excluded)
    /\ LET username == Head(loc.page).Username IN
       \E e \in DeleteOutcomes(username) :
        /\ calls' = Append(calls,
               UserCall("delete_all_users", "admin_delete_user", username, FALSE, e = OK))
        /\ IF e = OK
           THEN /\ pool' = PoolWithoutUser(username)
                /\ membership' = MembershipWithoutUser(username)
                /\ loc' = [loc EXCEPT !.page = Tail(loc.page),
                                      !.deleted_count = loc.deleted_count + 1]
                /\ msg' = "Deleting user: " \o username
                /\ UNCHANGED <<pc, ret, exit_code>>
           ELSE /\ DeleteAllUsers_Abort(e, "AdminDeleteUser")
                /\ UNCHANGED <<pool, membership, loc>>
    /\ UNCHANGED <<env, hist, pool_groups, prog, argv, ui>>

\* delete_all_users: after the page, the token of the response decides
\* between the next request and the summary and return.
DeleteAllUsers_EndOfPage ==
    /\ prog = "delete_users.main"
    /\ pc = "delete_all_users:for"
    /\ loc.page = <<>>
    /\ loc' = [loc EXCEPT !.pagination_token = loc.response_token]
    /\ IF LastPage(loc.response_token)
       THEN /\ msg' = "  Skipped: " \o ToString(loc.skipped_count)
                          \o " users (excluded)"
            /\ ret' = << <<loc.deleted_count, loc.skipped_count>> >>
            /\ exit_code' = <<0>>
            /\ pc' = "done"
       ELSE /\ pc' = "delete_all_users:list_users"
            /\ UNCHANGED <<ret, exit_code, msg>>
    /\ UNCHANGED <<env, hist, svc, prog, argv, calls, ui>>

\* -------------------------------------------------- tui: group helpers
\* Order of the group names under Python's string comparison.
GroupNamesSorted == <<"a", "b">>

NameRank(name) == CHOOSE k \in 1..Len(GroupNamesSorted) : GroupNamesSorted[k] = name

\* Variant: "return groups", unsorted.
Unsorted(groups) == groups

\* sorted(groups, key=lambda x: x[0]) on (name, name) pairs.
RECURSIVE SortByName(_)
SortByName(groups) ==
    IF groups = <<>> THEN <<>>
    ELSE LET m == CHOOSE j \in 1..Len(groups) :
                      /\ \A h \in 1..Len(groups) :
                             NameRank(groups[j][1]) <= NameRank(groups[h][1])
                      /\ \A h \in 1..(j - 1) : groups[h][1] # groups[j][1]
         IN  <<groups[m]>> \o SortByName(SubSeq(groups, 1, m - 1)
                                         \o SubSeq(groups, m + 1, Len(groups)))

\* e.response.get("Error", {}).get("Message", str(e))
ErrorMessage(e, op) == IF e.Message = None THEN ErrStr(e, op) ELSE e.Message

\* The (success, error_message) add_user_to_group and remove_user_from_group
\* return for the outcome e of their remote call.
GroupResult(e, op) == IF e = OK THEN <<TRUE, "">> ELSE <<FALSE, ErrorMessage(e, op)>>

\* The value of a Select widget with no option chosen.
BLANK == "<BLANK>"

\* "value if value != Select.BLANK else None"
SelectedGroup(value) == IF value # BLANK THEN value ELSE None

\* The groups the operator picks in a Select.
PickedGroups == {"a"}

\* The values a Select with the given (name, name) options is given.
SelectValues(options) ==
    {BLANK} \cup ({options[k][2] : k \in 1..Len(options)} \cap PickedGroups)

Top(stack) == stack[Len(stack)]

\* A handler of the TUI can start: the screen is shown and no handler runs.
TuiReady(screen) ==
    /\ session \in {"create_screen", "users_screen", "user_screens", "user_groups"}
    /\ pc \in {"idle", "done"}
    /\ Top(screens) = screen

\* EditUserScreen.load_groups after fetch_user_pool_groups returned: the
\* entry into get_user_groups up to its first remote call.
GetUserGroups_Begin(l) ==
    IF ~Truthy(edit_username)
    THEN /\ current_groups' = <<>>
         /\ loc' = l
         /\ pc' = "done"
    ELSE /\ loc' = [l EXCEPT !.groups = <<>>, !.pagination_token = None]
         /\ pc' = "get_user_groups:admin_list_groups_for_user"
         /\ UNCHANGED current_groups

\* fetch_user_pool_groups returns result to load_groups of the screen shown.
FetchUserPoolGroups_Return(result, l) ==
    /\ group_options' = result
    /\ IF Top(screens) = "create" \/ prog = "fetch_user_pool_groups"
       THEN /\ loc' = l
            /\ pc' = "done"
            /\ UNCHANGED current_groups
       ELSE GetUserGroups_Begin(l)

\* fetch_user_pool_groups: one list_groups request.
FetchUserPoolGroups_ListGroups ==
    /\ pc = "fetch_user_pool_groups:list_groups"
    /\ \E e \in ListOutcomes :
        IF e = OK
        THEN \E response \in ListGroupsResponses(SentToken(loc.pagination_token)) :
            LET groups == loc.groups \o
                    [j \in 1..Len(response.Groups) |->
                        <<response.Groups[j].GroupName, response.Groups[j].GroupName>>]
            IN  /\ calls' = Append(calls,
                       ListCall("fetch_user_pool_groups", "list_groups", None,
                                SentToken(loc.pagination_token), TRUE,
                                response.NextToken))
                /\ IF LastPage(response.NextToken)
                   THEN FetchUserPoolGroups_Return(SortByName(groups),
                            [loc EXCEPT !.groups = groups,
                                        !.pagination_token = response.NextToken])
                   ELSE /\ loc' = [loc EXCEPT !.groups = groups,
                                       !.pagination_token = response.NextToken]
                        /\ UNCHANGED <<pc, group_options, current_groups>>
        ELSE /\ calls' = Append(calls,
                    ListCall("fetch_user_pool_groups", "list_groups", None,
                             SentToken(loc.pagination_token), FALSE, None))
             /\ FetchUserPoolGroups_Return(<<>>, loc)
    /\ UNCHANGED <<env, hist, svc, prog, argv, ret, exit_code, msg, screens, status_below, config_text, table,
                   selected_users, edit_username, edit_form, view_text>>

\* ------------------------------------------------- tui: ViewUserScreen
\* sep.join(parts)
RECURSIVE JoinWith(_, _)
JoinWith(sep, parts) ==
    IF parts = <<>> THEN ""
    ELSE IF Len(parts) = 1 THEN Head(parts)
    ELSE Head(parts) \o sep \o JoinWith(sep, Tail(parts))

\* load_user_details: the text of the details widget; the responses carry
\* no UserCreateDate and no UserLastModifiedDate, for which the text is "".
DetailsText(username, response) ==
    "Username: " \o username
        \o "\nStatus: " \o response.UserStatus
        \o "\nEnabled: " \o (IF response.Enabled THEN "Yes" ELSE "No")
        \o "\nCreated: " \o "" \o "\nLast Modified: " \o "" \o "\n"

\* load_user_details: the text of the groups widget.
GroupsText(user_groups) ==
    IF user_groups # <<>> THEN "  " \o JoinWith(", ", user_groups)
    ELSE "  (none)"

\* "value[:8] + '...' + value[-4:]" for a value of at most four characters,
\* as the sub values of the pool are.
MaskSub(value) == value \o "..." \o value

\* load_user_details: the text of the attributes widget.
AttributesText(attributes) ==
    LET line(a) == "  " \o a.Name \o ": "
                       \o (IF a.Name = "sub" THEN MaskSub(a.Value) ELSE a.Value)
    IN  IF attributes # <<>>
        THEN JoinWith("\n", [j \in 1..Len(attributes) |-> line(attributes[j])])
        ELSE "  No attributes"

\* load_user_details after get_user_groups returned user_groups: the groups
\* and attributes widgets and the message.
LoadUserDetails_Finish(user_groups, l) ==
    /\ view_text' = [view_text EXCEPT !.groups = GroupsText(user_groups),
                                      !.attributes = AttributesText(l.attributes)]
    /\ msg' = "Loaded user: " \o edit_username
    /\ loc' = l
    /\ pc' = "done"

\* get_user_groups returns result to its caller: load_groups of the edit
\* screen keeps it in current_groups, load_user_details of the view screen
\* goes on with it.
GetUserGroups_Return(result, l) ==
    IF prog = "ViewUserScreen.on_mount"
    THEN /\ LoadUserDetails_Finish(result, l)
         /\ UNCHANGED current_groups
    ELSE /\ current_groups' = result
         /\ loc' = l
         /\ pc' = "done"
         /\ UNCHANGED <<msg, view_text>>

\* get_user_groups: one admin_list_groups_for_user request.
GetUserGroups_AdminListGroupsForUser ==
    /\ pc = "get_user_groups:admin_list_groups_for_user"
    /\ \E e \in ListOutcomes :
        IF e = OK
        THEN \E response \in ListGroupsForUserResponses(edit_username,
                                 SentToken(loc.pagination_token)) :
            LET groups == loc.groups \o
                    [j \in 1..Len(response.Groups) |-> response.Groups[j].GroupName]
            IN  /\ calls' = Append(calls,
                       ListCall("get_user_groups", "admin_list_groups_for_user",
                                edit_username, SentToken(loc.pagination_token),
                                TRUE, response.NextToken))
                /\ IF LastPage(response.NextToken)
                   THEN GetUserGroups_Return(groups,
                            [loc EXCEPT !.groups = groups,
                                        !.pagination_token = response.NextToken])
                   ELSE /\ loc' = [loc EXCEPT !.groups = groups,
                                              !.pagination_token = response.NextToken]
                        /\ UNCHANGED <<pc, current_groups, msg, view_text>>
        ELSE /\ calls' = Append(calls,
                    ListCall("get_user_groups", "admin_list_groups_for_user",
                             edit_username, SentToken(loc.pagination_token),
                             FALSE, None))
             /\ GetUserGroups_Return(<<>>, loc)
    /\ UNCHANGED <<env, hist, svc, prog, argv, ret, exit_code, screens, status_below, config_text, table,
                   selected_users, group_options, edit_username, edit_form>>

\* fetch_user_pool_groups called on its own with the configured pool ID, up
\* to its first remote call; the returned list is kept in group_options.
FetchUserPoolGroups_Call ==
    /\ session = "functions"
    /\ pc \in {"idle", "done"}
    /\ prog' = "fetch_user_pool_groups"
    /\ argv' = InitArgv
    /\ calls' = <<>>
    /\ loc' = InitLoc
    /\ IF PoolIdMissing(GetUserPoolId)
       THEN /\ group_options' = <<>>
            /\ pc' = "done"
       ELSE /\ pc' = "fetch_user_pool_groups:list_groups"
            /\ UNCHANGED group_options
    /\ pool0' = pool
    /\ UNCHANGED <<env, svc, ret, exit_code, msg, screens, status_below, config_text, table, selected_users,
                   current_groups, edit_username, edit_form, view_text>>

\* The usernames get_user_groups is called with on its own.
UsernameArgs == {"", "u"}

\* get_user_groups called on its own with the configured pool ID and a
\* username, up to its first remote call; the returned list is kept in
\* current_groups.
GetUserGroups_Call ==
    /\ session = "functions"
    /\ pc \in {"idle", "done"}
    /\ \E username \in UsernameArgs :
        /\ prog' = "get_user_groups"
        /\ argv' = InitArgv
        /\ calls' = <<>>
        /\ edit_username' = username
        /\ IF PoolIdMissing(GetUserPoolId) \/ ~Truthy(username)
           THEN /\ current_groups' = <<>>
                /\ loc' = InitLoc
                /\ pc' = "done"
           ELSE /\ loc' = InitLoc
                /\ pc' = "get_user_groups:admin_list_groups_for_user"
                /\ UNCHANGED current_groups
    /\ pool0' = pool
    /\ UNCHANGED <<env, svc, ret, exit_code, msg, screens, status_below, config_text, table, selected_users,
                   group_options, edit_form, view_text>>

\* app.push_screen(screen): the screen goes on top of the stack with an empty
\* status bar, the status bar of the screen under it keeps its message, and
\* the Mount message of the new screen is pending (pc "mount"); it is the
\* first message the new screen handles.
PushScreen(screen) ==
    /\ screens' = Append(screens, screen)
    /\ status_below' = Append(status_below, msg)
    /\ msg' = ""
    /\ pc' = "mount"

\* MainMenuScreen.show_create_screen
ShowCreateScreen ==
    /\ TuiReady("menu")
    /\ session = "create_screen"
    /\ prog' = "MainMenuScreen.show_create_screen"
    /\ argv' = InitArgv
    /\ calls' = <<>>
    /\ loc' = InitLoc
    /\ PushScreen("create")
    /\ pool0' = pool
    /\ UNCHANGED <<env, svc, ret, exit_code, config_text, table, selected_users,
                   group_options, current_groups, edit_username, edit_form, view_text>>

\* CreateUserScreen.on_mount: load_groups up to the first remote call of
\* fetch_user_pool_groups.
CreateUserScreen_OnMount ==
    /\ pc = "mount"
    /\ Top(screens) = "create"
    /\ prog' = "CreateUserScreen.on_mount"
    /\ IF PoolIdMissing(GetUserPoolId)
       THEN /\ group_options' = <<>>
            /\ pc' = "done"
       ELSE /\ pc' = "fetch_user_pool_groups:list_groups"
            /\ UNCHANGED group_options
    /\ UNCHANGED <<env, svc, hist, argv, loc, calls, ret, exit_code, msg, screens,
                   status_below, config_text, table, selected_users,
                   current_groups, edit_username, edit_form, view_text>>

\* MainMenuScreen.show_settings_screen
ShowSettingsScreen ==
    /\ TuiReady("menu")
    /\ prog' = "MainMenuScreen.show_settings_screen"
    /\ argv' = InitArgv
    /\ calls' = <<>>
    /\ loc' = InitLoc
    /\ PushScreen("settings")
    /\ pool0' = pool
    /\ UNCHANGED <<env, svc, ret, exit_code, config_text, table, selected_users,
                   group_options, current_groups, edit_username, edit_form, view_text>>

\* SettingsScreen.on_mount: the text of config-display, in an environment
\* where AWS_REGION and AWS_ACCESS_KEY_ID are not set.
ConfigText(user_pool_id, excluded_users) ==
    "AWS Region: " \o "ap-southeast-1"
        \o "\nAWS Access Key ID: " \o "Not set"
        \o "\nUser Pool ID: "
        \o (IF Truthy(user_pool_id) THEN user_pool_id ELSE "Not set")
        \o "\nExcluded Users: "
        \o (IF excluded_users # <<>> THEN JoinWith(", ", excluded_users) ELSE "None")
        \o "\n"

\* SettingsScreen.on_mount
SettingsScreen_OnMount ==
    /\ pc = "mount"
    /\ Top(screens) = "settings"
    /\ prog' = "SettingsScreen.on_mount"
    /\ config_text' = ConfigText(GetUserPoolId, GetExcludedUsers(env_exclude))
    /\ pc' = "done"
    /\ UNCHANGED <<env, svc, hist, argv, loc, calls, ret, exit_code, msg, screens,
                   status_below, table, selected_users, group_options,
                   current_groups, edit_username, edit_form, view_text>>

\* go_back of a screen and its escape binding: app.pop_screen(). The screen
\* and its widgets are dropped; the screen under it is shown as it was left.
GoBack ==
    /\ TuiReady(Top(screens))
    /\ Top(screens) # "menu"
    /\ screens' = SubSeq(screens, 1, Len(screens) - 1)
    /\ msg' = Top(status_below)
    /\ status_below' = SubSeq(status_below, 1, Len(status_below) - 1)
    /\ prog' = "go_back"
    /\ calls' = <<>>
    /\ argv' = InitArgv
    /\ loc' = InitLoc
    /\ pc' = "done"
    /\ group_options' = IF Top(screens) \in {"create", "edit"} THEN <<>>
                        ELSE group_options
    /\ current_groups' = IF Top(screens) = "edit" THEN <<>> ELSE current_groups
    /\ edit_form' = IF Top(screens) = "edit" THEN InitForm ELSE edit_form
    /\ edit_username' =
           IF Top(screens) = "view" \/ (Top(screens) = "edit" /\ Top(screens') # "view")
           THEN None ELSE edit_username
    /\ view_text' = IF Top(screens) = "view" THEN InitView ELSE view_text
    /\ config_text' = IF Top(screens) = "settings" THEN "" ELSE config_text
    /\ IF Top(screens) = "users"
       THEN table' = <<>> /\ selected_users' = {}
       ELSE UNCHANGED <<table, selected_users>>
    /\ pool0' = pool
    /\ UNCHANGED <<env, svc, ret, exit_code>>

\* ----------------------------------------------- tui: CreateUserScreen
\* Texts of the email Input.
EmailTexts == {<<>>, <<" ">>, <<" ", "v", " ">>}

\* Texts of the phone Input.
PhoneTexts == {<<>>}

\* Texts of the num-users Input.
NumUsersTexts ==
    {<<>>, <<" ">>, <<"x">>, <<"0">>, <<"-", "1">>}
        \cup {<<" ", DigitChars[n + 1]>> : n \in 1..MaxUsers}

\* "value.strip() or default"
StripOr(text, default) == IF Strip(text) # <<>> THEN Join(Strip(text)) ELSE default

\* The except ClientError branch of CreateUserScreen.create_single_user.
TuiCreateFailureMessage(e, email, op) ==
    IF e.Code = "UsernameExistsException"
    THEN "Error: User already exists: " \o email
    ELSE "Error: " \o ErrorMessage(e, op)

\* CreateUserScreen.create_single_user up to its first remote call.
CreateUserScreen_CreateSingleUser ==
    /\ TuiReady("create")
    /\ \E text \in EmailTexts, phone \in PhoneTexts,
          value \in SelectValues(group_options) :
        LET email == Join(Strip(text)) IN
        /\ prog' = "CreateUserScreen.create_single_user"
        /\ argv' = [InitArgv EXCEPT !.text = text, !.phone = phone, !.group = value]
        /\ calls' = <<>>
        /\ loc' = [InitLoc EXCEPT !.email = email,
                                  !.selected_group = SelectedGroup(value)]
        /\ IF ~Truthy(email)
           THEN /\ msg' = "Error: Email is required"
                /\ pc' = "done"
           ELSE IF PoolIdMissing(GetUserPoolId)
           THEN /\ msg' = "Error: User Pool ID not configured"
                /\ pc' = "done"
           ELSE /\ pc' = "tui_create_single:admin_create_user"
                /\ UNCHANGED msg
    /\ pool0' = pool
    /\ UNCHANGED <<env, svc, ret, exit_code, ui>>

\* create_single_user: the admin_create_user call.
TuiCreateSingle_AdminCreateUser ==
    /\ pc = "tui_create_single:admin_create_user"
    /\ \E e \in CreateOutcomes(loc.email) :
        /\ calls' = Append(calls,
               UserCall("CreateUserScreen.create_single_user", "admin_create_user",
                        loc.email, FALSE, e = OK))
        /\ IF e = OK
           THEN /\ pool' = PoolWithUser(loc.email,
                               NewUserAttributes(loc.email,
                                                 StripOr(argv.phone, "+6587654321")))
                /\ pc' = "tui_create_single:admin_set_user_password"
                /\ UNCHANGED msg
           ELSE /\ pool' = pool
                /\ msg' = TuiCreateFailureMessage(e, loc.email, "AdminCreateUser")
                /\ pc' = "done"
    /\ UNCHANGED <<env, hist, pool_groups, membership, prog, argv, loc, ret, exit_code, ui>>

\* create_single_user after the password was set and no group is to be
\* added, or after add_user_to_group returned: the message, and the inputs
\* are cleared.
TuiCreateSingle_Finish(group_msg) ==
    /\ msg' = "Successfully created user: " \o loc.email \o group_msg
    /\ argv' = [argv EXCEPT !.text = <<>>, !.phone = <<>>, !.group = BLANK]
    /\ pc' = "done"

\* create_single_user: the admin_set_user_password call.
TuiCreateSingle_AdminSetUserPassword ==
    /\ pc = "tui_create_single:admin_set_user_password"
    /\ \E e \in SetPasswordOutcomes(loc.email) :
        /\ calls' = Append(calls,
               UserCall("CreateUserScreen.create_single_user",
                        "admin_set_user_password", loc.email, SetPasswordPermanent, e = OK))
        /\ IF e = OK
           THEN /\ pool' = PoolWithPassword(loc.email, SetPasswordPermanent)
                /\ IF Truthy(loc.selected_group)
                   THEN /\ pc' = "add_user_to_group:admin_add_user_to_group"
                        /\ UNCHANGED <<msg, argv>>
                   ELSE TuiCreateSingle_Finish("")
           ELSE /\ pool' = pool
                /\ msg' = TuiCreateFailureMessage(e, loc.email, "AdminSetUserPassword")
                /\ pc' = "done"
                /\ UNCHANGED argv
    /\ UNCHANGED <<env, hist, pool_groups, membership, prog, loc, ret, exit_code, ui>>

\* CreateUserScreen.create_bulk_users up to its first remote call.
CreateUserScreen_CreateBulkUsers ==
    /\ TuiReady("create")
    /\ \E text \in NumUsersTexts, value \in SelectValues(group_options) :
        LET num_users_str == Strip(text)
            num_users     == ParseInt(num_users_str)
        IN
        /\ prog' = "CreateUserScreen.create_bulk_users"
        /\ argv' = [InitArgv EXCEPT !.text = text, !.group = value]
        /\ calls' = <<>>
        /\ IF num_users_str = <<>>
           THEN /\ msg' = "Error: Number of users is required"
                /\ loc' = InitLoc
                /\ pc' = "done"
           ELSE IF num_users = <<>> \/ num_users[1] < 1
           THEN /\ msg' = "Error: Please enter a valid positive number"
                /\ loc' = InitLoc
                /\ pc' = "done"
           ELSE IF PoolIdMissing(GetUserPoolId)
           THEN /\ msg' = "Error: User Pool ID not configured"
                /\ loc' = InitLoc
                /\ pc' = "done"
           ELSE /\ UNCHANGED msg
                /\ loc' = [InitLoc EXCEPT !.num_users = num_users[1], !.i = 1,
                                          !.email = TestUserEmail(1),
                                          !.selected_group = SelectedGroup(value)]
                /\ pc' = "tui_create_bulk:admin_create_user"
    /\ pool0' = pool
    /\ UNCHANGED <<env, svc, ret, exit_code, ui>>

\* create_bulk_users after the body ran for user i with locals l: the next
\* iteration, or the message, and the inputs are cleared.
TuiCreateBulk_Continue(l) ==
    IF RangeExhausted(l)
    THEN /\ loc' = l
         /\ msg' = "Created: " \o ToString(l.created_count)
                   \o ", Failed/Skipped: " \o ToString(l.failed_count)
                   \o (IF Truthy(l.selected_group)
                       THEN ", Added to group: " \o ToString(l.group_added)
                       ELSE "")
         /\ argv' = [argv EXCEPT !.text = <<>>, !.group = BLANK]
         /\ pc' = "done"
    ELSE /\ loc' = NextTestUser(l)
         /\ pc' = "tui_create_bulk:admin_create_user"
         /\ UNCHANGED <<msg, argv>>

\* create_bulk_users: the admin_create_user call of iteration i.
TuiCreateBulk_AdminCreateUser ==
    /\ pc = "tui_create_bulk:admin_create_user"
    /\ \E e \in CreateOutcomes(loc.email) :
        /\ calls' = Append(calls,
               UserCall("CreateUserScreen.create_bulk_users", "admin_create_user",
                        loc.email, FALSE, e = OK))
        /\ IF e = OK
           THEN /\ pool' = PoolWithUser(loc.email,
                               NewUserAttributes(loc.email, "+6587654321"))
                /\ pc' = "tui_create_bulk:admin_set_user_password"
                /\ UNCHANGED <<loc, msg, argv>>
           ELSE /\ pool' = pool
                /\ TuiCreateBulk_Continue(CountFailed(loc))
    /\ UNCHANGED <<env, hist, pool_groups, membership, prog, ret, exit_code, ui>>

\* create_bulk_users: the admin_set_user_password call of iteration i.
TuiCreateBulk_AdminSetUserPassword ==
    /\ pc = "tui_create_bulk:admin_set_user_password"
    /\ \E e \in SetPasswordOutcomes(loc.email) :
        /\ calls' = Append(calls,
               UserCall("CreateUserScreen.create_bulk_users",
                        "admin_set_user_password", loc.email, SetPasswordPermanent, e = OK))
        /\ IF e = OK
           THEN /\ pool' = PoolWithPassword(loc.email, SetPasswordPermanent)
                /\ IF Truthy(loc.selected_group)
                   THEN /\ loc' = CountCreated(loc)
                        /\ pc' = "add_user_to_group:admin_add_user_to_group"
                        /\ UNCHANGED <<msg, argv>>
                   ELSE TuiCreateBulk_Continue(CountCreated(loc))
           ELSE /\ pool' = pool
                /\ TuiCreateBulk_Continue(CountFailed(loc))
    /\ UNCHANGED <<env, hist, pool_groups, membership, prog, ret, exit_code, ui>>

\* EditUserScreen.load_groups: the pool-ID check, then the entry into
\* fetch_user_pool_groups up to its first remote call.
EditUserScreen_LoadGroups(l) ==
    IF PoolIdMissing(GetUserPoolId)
    THEN /\ loc' = l
         /\ pc' = "done"
    ELSE /\ loc' = [l EXCEPT !.groups = <<>>, !.pagination_token = None]
         /\ pc' = "fetch_user_pool_groups:list_groups"

\* Variant: a failed group add counts the user as failed.
CountGroupAddedOrFailed(success, l) ==
    IF success THEN [l EXCEPT !.group_added = l.group_added + 1]
    ELSE CountFailed(l)

\* create_bulk_users: "if success: group_added += 1"
CountGroupAdded(success, l) ==
    IF success THEN [l EXCEPT !.group_added = l.group_added + 1]
    ELSE l

\* add_user_to_group: the admin_add_user_to_group call, the returned
\* (success, error_message), and what its caller does with it.
AddUserToGroup_AdminAddUserToGroup ==
    /\ pc = "add_user_to_group:admin_add_user_to_group"
    /\ \E e \in GroupOutcomes(loc.email, loc.selected_group) :
        LET result == GroupResult(e, "AdminAddUserToGroup")
            l      == [loc EXCEPT !.group_result = result]
        IN
        /\ calls' = Append(calls,
               GroupCall("add_user_to_group", "admin_add_user_to_group",
                         loc.email, loc.selected_group, e = OK))
        /\ membership' = IF e = OK
                         THEN membership \cup {<<loc.email, loc.selected_group>>}
                         ELSE membership
        /\ IF prog = "CreateUserScreen.create_single_user"
           THEN /\ loc' = l
                /\ TuiCreateSingle_Finish(
                       IF result[1]
                       THEN " and added to group '" \o loc.selected_group \o "'"
                       ELSE " (group error: " \o result[2] \o ")")
           ELSE IF prog = "CreateUserScreen.create_bulk_users"
           THEN TuiCreateBulk_Continue(CountGroupAdded(result[1], l))
           ELSE IF result[1]
           THEN /\ msg' = "Added user to group '" \o loc.selected_group \o "'"
                /\ EditUserScreen_LoadGroups(l)
                /\ UNCHANGED argv
           ELSE /\ msg' = "Error: " \o result[2]
                /\ loc' = l
                /\ pc' = "done"
                /\ UNCHANGED argv
    /\ UNCHANGED <<env, hist, pool, pool_groups, prog, ret, exit_code, ui>>

\* remove_user_from_group: the admin_remove_user_from_group call, the
\* returned (success, error_message), and what remove_from_group does with it.
RemoveUserFromGroup_AdminRemoveUserFromGroup ==
    /\ pc = "remove_user_from_group:admin_remove_user_from_group"
    /\ \E e \in GroupOutcomes(loc.email, loc.selected_group) :
        LET result == GroupResult(e, "AdminRemoveUserFromGroup")
            l      == [loc EXCEPT !.group_result = result]
        IN
        /\ calls' = Append(calls,
               GroupCall("remove_user_from_group", "admin_remove_user_from_group",
                         loc.email, loc.selected_group, e = OK))
        /\ membership' = IF e = OK
                         THEN membership \ {<<loc.email, loc.selected_group>>}
                         ELSE membership
        /\ IF result[1]
           THEN /\ msg' = "Removed user from group '" \o loc.selected_group \o "'"
                /\ EditUserScreen_LoadGroups(l)
           ELSE /\ msg' = "Error: " \o result[2]
                /\ loc' = l
                /\ pc' = "done"
    /\ UNCHANGED <<env, hist, pool, pool_groups, prog, argv, ret, exit_code, ui>>

\* ---------------------------------------------------- tui: UsersScreen
\* Variant: "username in excluded".
TuiIsExcludedByUsername(username, email, excluded) == username \in excluded

\* "username in excluded or email in excluded"
TuiIsExcluded(username, email, excluded) ==
    username \in excluded \/ email \in excluded

\* The row load_users makes of a listed user; the listed users carry no
\* UserCreateDate, for which the Created column is "".
UserRow(user, excluded) ==
    << (IF TuiIsExcluded(user.Username, EmailOf(user.Attributes), excluded)
        THEN "[E]" ELSE "[ ]"),
       user.Username,
       EmailOf(user.Attributes),
       user.UserStatus,
       (IF user.Enabled THEN "Yes" ELSE "No"),
       "" >>

\* Variant: load_users without "self.selected_users.clear()".
LoadUsers_BeginKeepsSelection(l, m) ==
    /\ table' = <<>>
    /\ selected_users' = selected_users
    /\ IF PoolIdMissing(GetUserPoolId)
       THEN /\ msg' = "Error: User Pool ID not configured"
            /\ loc' = l
            /\ pc' = "done"
       ELSE /\ msg' = m
            /\ loc' = [l EXCEPT !.excluded = SeqToSet(GetExcludedUsers(env_exclude)),
                                !.pagination_token = None,
                                !.users = <<>>]
            /\ pc' = "load_users:list_users"

\* load_users up to its first remote call: the table and the selection are
\* cleared, then the pool-ID check; m is the status message before the call.
LoadUsers_Begin(l, m) ==
    /\ table' = <<>>
    /\ selected_users' = {}
    /\ IF PoolIdMissing(GetUserPoolId)
       THEN /\ msg' = "Error: User Pool ID not configured"
            /\ loc' = l
            /\ pc' = "done"
       ELSE /\ msg' = m
            /\ loc' = [l EXCEPT !.excluded = SeqToSet(GetExcludedUsers(env_exclude)),
                                !.pagination_token = None,
                                !.users = <<>>]
            /\ pc' = "load_users:list_users"

\* Variant: the rows of the pages read before the error are shown.
LoadUsers_FailedShowsPages(e) ==
    /\ msg' = "Error loading users: " \o ErrStr(e, "ListUsers")
    /\ pc' = "done"
    /\ table' = loc.users
    /\ UNCHANGED loc

\* load_users: "except ClientError"
LoadUsers_Failed(e) ==
    /\ msg' = "Error loading users: " \o ErrStr(e, "ListUsers")
    /\ pc' = "done"
    /\ UNCHANGED <<loc, table>>

\* load_users: one list_users request; after the last page the rows are
\* added to the table.
LoadUsers_ListUsers ==
    /\ pc = "load_users:list_users"
    /\ \E e \in ListOutcomes :
        IF e = OK
        THEN \E response \in ListUsersResponses(SentToken(loc.pagination_token)) :
            LET users == loc.users \o
                    [j \in 1..Len(response.Users) |->
                        UserRow(response.Users[j], loc.excluded)]
            IN  /\ calls' = Append(calls,
                       ListCall("load_users", "list_users", None,
                                SentToken(loc.pagination_token), TRUE,
                                response.PaginationToken))
                /\ loc' = [loc EXCEPT !.users = users,
                                      !.pagination_token = response.PaginationToken]
                /\ IF LastPage(response.PaginationToken)
                   THEN /\ table' = users
                        /\ msg' = "Loaded " \o ToString(Len(users)) \o " users"
                        /\ pc' = "done"
                   ELSE UNCHANGED <<table, msg, pc>>
        ELSE /\ calls' = Append(calls,
                    ListCall("load_users", "list_users", None,
                             SentToken(loc.pagination_token), FALSE, None))
             /\ LoadUsers_Failed(e)
    /\ UNCHANGED <<env, hist, svc, prog, argv, ret, exit_code, screens, status_below, config_text, selected_users,
                   group_options, current_groups, edit_username, edit_form, view_text>>

\* MainMenuScreen.show_users_screen
ShowUsersScreen ==
    /\ TuiReady("menu")
    /\ session \in {"users_screen", "user_screens", "user_groups"}
    /\ prog' = "MainMenuScreen.show_users_screen"
    /\ argv' = InitArgv
    /\ calls' = <<>>
    /\ loc' = InitLoc
    /\ PushScreen("users")
    /\ pool0' = pool
    /\ UNCHANGED <<env, svc, ret, exit_code, config_text, table, selected_users,
                   group_options, current_groups, edit_username, edit_form, view_text>>

\* UsersScreen.on_mount: the columns, the empty selection, and load_users up
\* to its first remote call.
UsersScreen_OnMount ==
    /\ pc = "mount"
    /\ Top(screens) = "users"
    /\ prog' = "UsersScreen.on_mount"
    /\ LoadUsers_Begin(loc, msg)
    /\ UNCHANGED <<env, svc, hist, argv, calls, ret, exit_code, screens, status_below,
                   config_text, group_options, current_groups, edit_username,
                   edit_form, view_text>>

\* UsersScreen.action_refresh
UsersScreen_Refresh ==
    /\ TuiReady("users")
    /\ session = "users_screen"
    /\ prog' = "UsersScreen.action_refresh"
    /\ argv' = InitArgv
    /\ calls' = <<>>
    /\ LoadUsers_Begin(InitLoc, msg)
    /\ pool0' = pool
    /\ UNCHANGED <<env, svc, ret, exit_code, screens, status_below, config_text, group_options,
                   current_groups, edit_username, edit_form, view_text>>

\* UsersScreen.delete_all_users up to its first remote call.
UsersScreen_DeleteAll ==
    /\ TuiReady("users")
    /\ session \in {"users_screen", "user_groups"}
    /\ prog' = "UsersScreen.delete_all_users"
    /\ argv' = InitArgv
    /\ calls' = <<>>
    /\ IF PoolIdMissing(GetUserPoolId)
       THEN /\ msg' = "Error: User Pool ID not configured"
            /\ loc' = InitLoc
            /\ pc' = "done"
       ELSE /\ loc' = [InitLoc EXCEPT
                          !.excluded = SeqToSet(GetExcludedUsers(env_exclude))]
            /\ pc' = "tui_delete_all:list_users"
            /\ UNCHANGED msg
    /\ pool0' = pool
    /\ UNCHANGED <<env, svc, ret, exit_code, ui>>

\* UsersScreen.delete_all_users: "except ClientError"
TuiDeleteAll_Abort(e, op) ==
    /\ msg' = "Error deleting users: " \o ErrStr(e, op)
    /\ pc' = "done"

\* UsersScreen.delete_all_users: one list_users request.
TuiDeleteAll_ListUsers ==
    /\ pc = "tui_delete_all:list_users"
    /\ \E e \in ListOutcomes :
        IF e = OK
        THEN \E response \in ListUsersResponses(SentToken(loc.pagination_token)) :
            /\ calls' = Append(calls,
                   ListCall("UsersScreen.delete_all_users", "list_users", None,
                            SentToken(loc.pagination_token), TRUE,
                            response.PaginationToken))
            /\ loc' = [loc EXCEPT !.page = response.Users,
                                  !.response_token = response.PaginationToken]
            /\ pc' = "tui_delete_all:for"
            /\ UNCHANGED msg
        ELSE /\ calls' = Append(calls,
                    ListCall("UsersScreen.delete_all_users", "list_users", None,
                             SentToken(loc.pagination_token), FALSE, None))
             /\ TuiDeleteAll_Abort(e, "ListUsers")
             /\ loc' = loc
    /\ UNCHANGED <<env, hist, svc, prog, argv, ret, exit_code, ui>>

\* UsersScreen.delete_all_users: an excluded user of the page is skipped.
TuiDeleteAll_Skip ==
    /\ pc = "tui_delete_all:for"
    /\ loc.page # <<>>
    /\ TuiIsExcluded(Head(loc.page).Username, EmailOf(Head(loc.page).Attributes),
                     loc.excluded)
    /\ loc' = [loc EXCEPT !.page = Tail(loc.page),
                          !.skipped_count = loc.skipped_count + 1]
    /\ UNCHANGED <<env, hist, svc, prog, pc, argv, calls, ret, exit_code, msg, ui>>

\* UsersScreen.delete_all_users: the admin_delete_user call for the next
\* user of the page.
TuiDeleteAll_AdminDeleteUser ==
    /\ pc = "tui_delete_all:for"
    /\ loc.page # <<>>
    /\ ~TuiIsExcluded(Head(loc.page).Username, EmailOf(Head(loc.page).Attributes),
                      loc.excluded)
    /\ LET username == Head(loc.page).Username IN
       \E e \in DeleteOutcomes(username) :
        /\ calls' = Append(calls,
               UserCall("UsersScreen.delete_all_users", "admin_delete_user",
                        username, FALSE, e = OK))
        /\ IF e = OK
           THEN /\ pool' = PoolWithoutUser(username)
                /\ membership' = MembershipWithoutUser(username)
                /\ loc' = [loc EXCEPT !.page = Tail(loc.page),
                                      !.deleted_count = loc.deleted_count + 1]
                /\ UNCHANGED <<pc, msg>>
           ELSE /\ TuiDeleteAll_Abort(e, "AdminDeleteUser")
                /\ UNCHANGED <<pool, membership, loc>>
    /\ UNCHANGED <<env, hist, pool_groups, prog, argv, ret, exit_code, ui>>

\* UsersScreen.delete_all_users: after the page, the token of the response
\* decides between the next request and the message and load_users().
TuiDeleteAll_EndOfPage ==
    /\ pc = "tui_delete_all:for"
    /\ loc.page = <<>>
    /\ IF LastPage(loc.response_token)
       THEN LoadUsers_Begin([loc EXCEPT !.pagination_token = loc.response_token],
                "Deleted: " \o ToString(loc.deleted_count) \o ", Skipped: "
                    \o ToString(loc.skipped_count) \o " (excluded)")
       ELSE /\ loc' = [loc EXCEPT !.pagination_token = loc.response_token]
            /\ pc' = "tui_delete_all:list_users"
            /\ UNCHANGED <<msg, table, selected_users>>
    /\ UNCHANGED <<env, hist, svc, prog, argv, calls, ret, exit_code, screens, status_below, config_text,
                   group_options, current_groups, edit_username, edit_form, view_text>>

\* toggle_selection: the selection after the row of `username` was toggled.
ToggledSelection(selected, username) ==
    IF username \in selected THEN selected \ {username}
    ELSE selected \cup {username}

\* Variant: the select cell is marked whatever the selection was.
ToggledMarkerAlwaysOn(selected, username) == "[X]"

\* toggle_selection: the new text of the row's select cell.
ToggledMarker(selected, username) ==
    IF username \in selected THEN "[ ]" ELSE "[X]"

\* UsersScreen.toggle_selection for a RowSelected event; row 0 stands for an
\* event without row key.
UsersScreen_ToggleSelection ==
    /\ TuiReady("users")
    /\ session = "users_screen"
    /\ \E row \in 0..Len(table) :
        /\ prog' = "UsersScreen.toggle_selection"
        /\ argv' = [InitArgv EXCEPT !.row = row]
        /\ calls' = <<>>
        /\ loc' = InitLoc
        /\ pc' = "done"
        /\ IF row = 0
           THEN UNCHANGED <<table, selected_users>>
           ELSE LET username       == table[row][2]
                    current_select == table[row][1]
                IN  IF current_select = "[E]"
                    THEN UNCHANGED <<table, selected_users>>
                    ELSE /\ selected_users' = ToggledSelection(selected_users, username)
                         /\ table' = [table EXCEPT ![row][1] =
                                          ToggledMarker(selected_users, username)]
    /\ pool0' = pool
    /\ UNCHANGED <<env, svc, ret, exit_code, msg, screens, status_below, config_text, group_options,
                   current_groups, edit_username, edit_form, view_text>>

\* UsersScreen.action_delete_selected up to its first remote call;
\* usernames is list(self.selected_users), whose order is that of a set, and
\* pending the part of it the loop has not reached.
UsersScreen_DeleteSelected ==
    /\ TuiReady("users")
    /\ session = "users_screen"
    /\ prog' = "UsersScreen.action_delete_selected"
    /\ argv' = InitArgv
    /\ calls' = <<>>
    /\ IF selected_users = {}
       THEN /\ msg' = "No users selected (use Enter to select)"
            /\ loc' = InitLoc
            /\ pc' = "done"
       ELSE IF PoolIdMissing(GetUserPoolId)
       THEN /\ msg' = "Error: User Pool ID not configured"
            /\ loc' = InitLoc
            /\ pc' = "done"
       ELSE /\ loc' = [InitLoc EXCEPT !.usernames = selected_users,
                                      !.pending = selected_users]
            /\ pc' = "delete_selected:admin_delete_user"
            /\ UNCHANGED msg
    /\ pool0' = pool
    /\ UNCHANGED <<env, svc, ret, exit_code, ui>>

\* Variant: the error of one delete is reported and the loop goes on.
TuiDeleteSelected_AbortContinues(e, op) ==
    /\ msg' = "Error deleting users: " \o ErrStr(e, op)
    /\ pc' = "delete_selected:admin_delete_user"

\* action_delete_selected: "except ClientError"
TuiDeleteSelected_Abort(e, op) ==
    /\ msg' = "Error deleting users: " \o ErrStr(e, op)
    /\ pc' = "done"

\* action_delete_selected: the admin_delete_user call for the next username
\* of the list; after the last one the message and load_users().
TuiDeleteSelected_AdminDeleteUser ==
    /\ pc = "delete_selected:admin_delete_user"
    /\ \E username \in loc.pending :
       \E e \in DeleteOutcomes(username) :
        /\ calls' = Append(calls,
               UserCall("UsersScreen.action_delete_selected", "admin_delete_user",
                        username, FALSE, e = OK))
        /\ IF e = OK
           THEN LET l == [loc EXCEPT !.pending = loc.pending \ {username},
                                     !.deleted_count = loc.deleted_count + 1]
                IN  /\ pool' = PoolWithoutUser(username)
                    /\ membership' = MembershipWithoutUser(username)
                    /\ IF l.pending = {}
                       THEN LoadUsers_Begin(l,
                                "Deleted " \o ToString(l.deleted_count) \o " users")
                       ELSE /\ loc' = l
                            /\ UNCHANGED <<msg, pc, table, selected_users>>
           ELSE /\ TuiDeleteSelected_Abort(e, "AdminDeleteUser")
                /\ UNCHANGED <<pool, membership, loc, table, selected_users>>
    /\ UNCHANGED <<env, hist, pool_groups, prog, argv, ret, exit_code, screens, status_below, config_text,
                   group_options, current_groups, edit_username, edit_form, view_text>>

\* UsersScreen.action_view_user; the cursor is on some row of the table.
UsersScreen_ViewUser ==
    /\ TuiReady("users")
    /\ session \in {"user_screens", "user_groups"}
    /\ prog' = "UsersScreen.action_view_user"
    /\ calls' = <<>>
    /\ loc' = InitLoc
    /\ IF table = <<>>
       THEN /\ argv' = InitArgv
            /\ msg' = "No user selected"
            /\ pc' = "done"
            /\ UNCHANGED <<screens, status_below, edit_username, view_text>>
       ELSE \E row \in 1..Len(table) :
            /\ argv' = [InitArgv EXCEPT !.row = row]
            /\ PushScreen("view")
            /\ edit_username' = table[row][2]
            /\ view_text' = InitView
    /\ pool0' = pool
    /\ UNCHANGED <<env, svc, ret, exit_code, config_text, table, selected_users,
                   group_options, current_groups, edit_form>>

\* ViewUserScreen.on_mount: load_user_details up to the remote call.
ViewUserScreen_OnMount ==
    /\ pc = "mount"
    /\ Top(screens) = "view"
    /\ prog' = "ViewUserScreen.on_mount"
    /\ IF PoolIdMissing(GetUserPoolId)
       THEN /\ msg' = "Error: User Pool ID not configured"
            /\ pc' = "done"
       ELSE /\ pc' = "load_user_details:admin_get_user"
            /\ UNCHANGED msg
    /\ UNCHANGED <<env, svc, hist, argv, loc, calls, ret, exit_code, screens,
                   status_below, config_text, table, selected_users, group_options,
                   current_groups, edit_username, edit_form, view_text>>

\* ViewUserScreen.edit_user: the edit screen of the same username.
ViewUserScreen_EditUser ==
    /\ TuiReady("view")
    /\ prog' = "ViewUserScreen.edit_user"
    /\ argv' = InitArgv
    /\ calls' = <<>>
    /\ loc' = InitLoc
    /\ PushScreen("edit")
    /\ current_groups' = <<>>
    /\ edit_form' = InitForm
    /\ pool0' = pool
    /\ UNCHANGED <<env, svc, ret, exit_code, config_text, table, selected_users,
                   group_options, edit_username, view_text>>

\* load_user_details: the admin_get_user call, the details widget, and the
\* entry into get_user_groups up to its first remote call.
LoadUserDetails_AdminGetUser ==
    /\ pc = "load_user_details:admin_get_user"
    /\ \E e \in GetUserOutcomes(edit_username) :
        /\ calls' = Append(calls,
               UserCall("load_user_details", "admin_get_user", edit_username,
                        FALSE, e = OK))
        /\ IF e = OK
           THEN LET response == UserRecord(edit_username)
                    l == [loc EXCEPT !.attributes = response.Attributes,
                                     !.groups = <<>>,
                                     !.pagination_token = None]
                IN  /\ view_text' = [view_text EXCEPT
                                        !.details = DetailsText(edit_username, response)]
                    /\ loc' = l
                    /\ pc' = "get_user_groups:admin_list_groups_for_user"
                    /\ UNCHANGED msg
           ELSE /\ msg' = "Error loading user: " \o ErrStr(e, "AdminGetUser")
                /\ pc' = "done"
                /\ UNCHANGED <<loc, view_text>>
    /\ UNCHANGED <<env, hist, svc, prog, argv, ret, exit_code, screens, status_below, config_text, table,
                   selected_users, group_options, current_groups, edit_username,
                   edit_form>>

\* ------------------------------------------------- tui: EditUserScreen
\* value.lower() == "true"
IsTrueText(value) == value \in {"true", "True", "TRUE"}

\* load_user_data: the form after the attributes of the response were read.
RECURSIVE FormWithAttributes(_, _)
FormWithAttributes(form, attributes) ==
    IF attributes = <<>> THEN form
    ELSE LET a == Head(attributes)
             f == IF a.Name = "email" THEN [form EXCEPT !.email = a.Value]
                  ELSE IF a.Name = "phone_number" THEN [form EXCEPT !.phone = a.Value]
                  ELSE IF a.Name = "email_verified"
                  THEN [form EXCEPT !.email_verified = IsTrueText(a.Value)]
                  ELSE IF a.Name = "phone_number_verified"
                  THEN [form EXCEPT !.phone_verified = IsTrueText(a.Value)]
                  ELSE form
         IN  FormWithAttributes(f, Tail(attributes))

\* UsersScreen.action_edit_user and EditUserScreen.__init__; the cursor is on
\* some row of the table.
UsersScreen_EditUser ==
    /\ TuiReady("users")
    /\ session \in {"user_screens", "user_groups"}
    /\ prog' = "UsersScreen.action_edit_user"
    /\ calls' = <<>>
    /\ loc' = InitLoc
    /\ IF table = <<>>
       THEN /\ argv' = InitArgv
            /\ msg' = "No user selected"
            /\ pc' = "done"
            /\ UNCHANGED <<screens, status_below, edit_username, current_groups,
                           edit_form>>
       ELSE \E row \in 1..Len(table) :
            /\ argv' = [InitArgv EXCEPT !.row = row]
            /\ PushScreen("edit")
            /\ edit_username' = table[row][2]
            /\ current_groups' = <<>>
            /\ edit_form' = InitForm
    /\ pool0' = pool
    /\ UNCHANGED <<env, svc, ret, exit_code, config_text, table, selected_users,
                   group_options, view_text>>

\* EditUserScreen.on_mount: load_user_data up to its remote call.
EditUserScreen_OnMount ==
    /\ pc = "mount"
    /\ Top(screens) = "edit"
    /\ prog' = "EditUserScreen.on_mount"
    /\ IF PoolIdMissing(GetUserPoolId)
       THEN /\ msg' = "Error: User Pool ID not configured"
            /\ pc' = "done"
       ELSE /\ pc' = "load_user_data:admin_get_user"
            /\ UNCHANGED msg
    /\ UNCHANGED <<env, svc, hist, argv, loc, calls, ret, exit_code, screens,
                   status_below, config_text, table, selected_users, group_options,
                   current_groups, edit_username, edit_form, view_text>>

\* load_user_data: the admin_get_user call; then on_mount goes on to
\* load_groups.
LoadUserData_AdminGetUser ==
    /\ pc = "load_user_data:admin_get_user"
    /\ \E e \in GetUserOutcomes(edit_username) :
        /\ calls' = Append(calls,
               UserCall("load_user_data", "admin_get_user", edit_username,
                        FALSE, e = OK))
        /\ IF e = OK
           THEN /\ edit_form' = FormWithAttributes(
                       [edit_form EXCEPT !.enabled = UserRecord(edit_username).Enabled],
                       UserRecord(edit_username).Attributes)
                /\ msg' = "Loaded user data for: " \o edit_username
           ELSE /\ msg' = "Error loading user: " \o ErrStr(e, "AdminGetUser")
                /\ UNCHANGED edit_form
        /\ EditUserScreen_LoadGroups(loc)
    /\ UNCHANGED <<env, hist, svc, prog, argv, ret, exit_code, screens, status_below, config_text, table,
                   selected_users, group_options, current_groups, edit_username,
                   view_text>>

\* Variant: the membership test never finds the group.
InCurrentGroupsNever(selected_group, groups) == FALSE

\* "selected_group in self.current_groups"
InCurrentGroups(selected_group, groups) ==
    \E k \in 1..Len(groups) : groups[k] = selected_group

\* EditUserScreen.add_to_group up to the remote call of add_user_to_group.
EditUserScreen_AddToGroup ==
    /\ TuiReady("edit")
    /\ session = "user_groups"
    /\ \E value \in SelectValues(group_options) :
        LET selected_group == SelectedGroup(value) IN
        /\ prog' = "EditUserScreen.add_to_group"
        /\ argv' = [InitArgv EXCEPT !.group = value]
        /\ calls' = <<>>
        /\ loc' = [InitLoc EXCEPT !.email = edit_username,
                                  !.selected_group = selected_group]
        /\ IF ~Truthy(selected_group)
           THEN /\ msg' = "Error: Please select a group"
                /\ pc' = "done"
           ELSE IF InCurrentGroups(selected_group, current_groups)
           THEN /\ msg' = "User is already in group '" \o selected_group \o "'"
                /\ pc' = "done"
           ELSE IF PoolIdMissing(GetUserPoolId)
           THEN /\ msg' = "Error: User Pool ID not configured"
                /\ pc' = "done"
           ELSE /\ pc' = "add_user_to_group:admin_add_user_to_group"
                /\ UNCHANGED msg
    /\ pool0' = pool
    /\ UNCHANGED <<env, svc, ret, exit_code, ui>>

\* EditUserScreen.remove_from_group up to the remote call of
\* remove_user_from_group.
EditUserScreen_RemoveFromGroup ==
    /\ TuiReady("edit")
    /\ session = "user_groups"
    /\ \E value \in SelectValues(group_options) :
        LET selected_group == SelectedGroup(value) IN
        /\ prog' = "EditUserScreen.remove_from_group"
        /\ argv' = [InitArgv EXCEPT !.group = value]
        /\ calls' = <<>>
        /\ loc' = [InitLoc EXCEPT !.email = edit_username,
                                  !.selected_group = selected_group]
        /\ IF ~Truthy(selected_group)
           THEN /\ msg' = "Error: Please select a group"
                /\ pc' = "done"
           ELSE IF ~InCurrentGroups(selected_group, current_groups)
           THEN /\ msg' = "User is not in group '" \o selected_group \o "'"
                /\ pc' = "done"
           ELSE IF PoolIdMissing(GetUserPoolId)
           THEN /\ msg' = "Error: User Pool ID not configured"
                /\ pc' = "done"
           ELSE /\ pc' = "remove_user_from_group:admin_remove_user_from_group"
                /\ UNCHANGED msg
    /\ pool0' = pool
    /\ UNCHANGED <<env, svc, ret, exit_code, ui>>

\* What the operator types into the email Input of the edit form.
EmailInputs == {" n "}

\* The operator fills in the edit form: the email Input and the
\* account-enabled Checkbox; no handler of the screen runs.
EditUserScreen_Input ==
    /\ TuiReady("edit")
    /\ session = "user_screens"
    /\ \E email \in EmailInputs, enabled \in BOOLEAN :
        edit_form' = [edit_form EXCEPT !.email = email, !.enabled = enabled]
    /\ prog' = "EditUserScreen.input"
    /\ argv' = InitArgv
    /\ calls' = <<>>
    /\ loc' = InitLoc
    /\ pc' = "done"
    /\ pool0' = pool
    /\ UNCHANGED <<env, svc, ret, exit_code, msg, screens, status_below, config_text, table, selected_users,
                   group_options, current_groups, edit_username, view_text>>

\* The characters of the value of an Input: of what the operator typed, or
\* of a value of the service, which has no whitespace.
Chars(value) ==
    IF value = "" THEN <<>>
    ELSE IF value = " n " THEN <<" ", "n", " ">>
    ELSE <<value>>

\* str(value).lower() of a bool
BoolText(value) == IF value THEN "true" ELSE "false"

\* update_attributes: the attribute list it builds from the form.
FormAttributes(form) ==
    LET email == Join(Strip(Chars(form.email)))
        phone == Join(Strip(Chars(form.phone)))
    IN  (IF email # ""
         THEN <<[Name |-> "email", Value |-> email],
                [Name |-> "email_verified", Value |-> BoolText(form.email_verified)]>>
         ELSE <<>>)
        \o
        (IF phone # ""
         THEN <<[Name |-> "phone_number", Value |-> phone],
                [Name |-> "phone_number_verified",
                 Value |-> BoolText(form.phone_verified)]>>
         ELSE <<>>)

\* An attribute list with attribute a set: replaced where its name occurs,
\* added at the end otherwise.
WithAttribute(attributes, a) ==
    IF \E j \in 1..Len(attributes) : attributes[j].Name = a.Name
    THEN [j \in 1..Len(attributes) |->
             IF attributes[j].Name = a.Name THEN a ELSE attributes[j]]
    ELSE Append(attributes, a)

RECURSIVE WithAttributes(_, _)
WithAttributes(attributes, new) ==
    IF new = <<>> THEN attributes
    ELSE WithAttributes(WithAttribute(attributes, Head(new)), Tail(new))

\* Effect of a successful admin_update_user_attributes.
PoolWithAttributes(username, new) ==
    { IF r.Username = username
      THEN [r EXCEPT !.Attributes = WithAttributes(r.Attributes, new)]
      ELSE r : r \in pool }

\* Effect of a successful admin_enable_user / admin_disable_user.
PoolWithEnabled(username, enabled) ==
    { IF r.Username = username THEN [r EXCEPT !.Enabled = enabled] ELSE r
      : r \in pool }

\* Outcomes of admin_update_user_attributes, admin_enable_user,
\* admin_disable_user and admin_set_user_mfa_preference.
UpdateOutcomes(username) ==
    IF Exists(username)
    THEN {OK} \cup Errors({"TooManyRequestsException"}, {"boom"})
    ELSE Errors({"UserNotFoundException"}, {"boom"})

\* Texts of the new-password Input.
PasswordTexts == {<<>>, <<" ">>, <<" ", "p", " ">>}

\* EditUserScreen.update_password up to its remote call.
EditUserScreen_UpdatePassword ==
    /\ TuiReady("edit")
    /\ session = "user_screens"
    /\ \E text \in PasswordTexts :
        LET new_password == Join(Strip(text)) IN
        /\ prog' = "EditUserScreen.update_password"
        /\ argv' = [InitArgv EXCEPT !.text = text]
        /\ calls' = <<>>
        /\ loc' = InitLoc
        /\ IF ~Truthy(new_password)
           THEN /\ msg' = "Error: Password is required"
                /\ pc' = "done"
           ELSE IF PoolIdMissing(GetUserPoolId)
           THEN /\ msg' = "Error: User Pool ID not configured"
                /\ pc' = "done"
           ELSE /\ pc' = "update_password:admin_set_user_password"
                /\ UNCHANGED msg
    /\ pool0' = pool
    /\ UNCHANGED <<env, svc, ret, exit_code, ui>>

\* update_password: the admin_set_user_password call; on success the Input
\* is emptied.
UpdatePassword_AdminSetUserPassword ==
    /\ pc = "update_password:admin_set_user_password"
    /\ \E e \in SetPasswordOutcomes(edit_username) :
        /\ calls' = Append(calls,
               UserCall("EditUserScreen.update_password", "admin_set_user_password",
                        edit_username, TRUE, e = OK))
        /\ IF e = OK
           THEN /\ pool' = PoolWithPassword(edit_username, TRUE)
                /\ msg' = "Password updated successfully"
                /\ argv' = [argv EXCEPT !.text = <<>>]
           ELSE /\ msg' = "Error: " \o ErrorMessage(e, "AdminSetUserPassword")
                /\ UNCHANGED <<pool, argv>>
    /\ pc' = "done"
    /\ UNCHANGED <<env, hist, pool_groups, membership, prog, loc, ret, exit_code, ui>>

\* EditUserScreen.update_attributes up to its remote call.
EditUserScreen_UpdateAttributes ==
    /\ TuiReady("edit")
    /\ session = "user_screens"
    /\ prog' = "EditUserScreen.update_attributes"
    /\ argv' = InitArgv
    /\ calls' = <<>>
    /\ IF PoolIdMissing(GetUserPoolId)
       THEN /\ msg' = "Error: User Pool ID not configured"
            /\ loc' = InitLoc
            /\ pc' = "done"
       ELSE IF FormAttributes(edit_form) = <<>>
       THEN /\ msg' = "Error: No attributes to update"
            /\ loc' = InitLoc
            /\ pc' = "done"
       ELSE /\ loc' = [InitLoc EXCEPT !.attributes = FormAttributes(edit_form)]
            /\ pc' = "update_attributes:admin_update_user_attributes"
            /\ UNCHANGED msg
    /\ pool0' = pool
    /\ UNCHANGED <<env, svc, ret, exit_code, ui>>

\* update_attributes: the admin_update_user_attributes call.
UpdateAttributes_AdminUpdateUserAttributes ==
    /\ pc = "update_attributes:admin_update_user_attributes"
    /\ \E e \in UpdateOutcomes(edit_username) :
        /\ calls' = Append(calls,
               UserCall("EditUserScreen.update_attributes",
                        "admin_update_user_attributes", edit_username, FALSE, e = OK))
        /\ IF e = OK
           THEN /\ pool' = PoolWithAttributes(edit_username, loc.attributes)
                /\ msg' = "Attributes updated successfully"
           ELSE /\ msg' = "Error: " \o ErrorMessage(e, "AdminUpdateUserAttributes")
                /\ UNCHANGED pool
    /\ pc' = "done"
    /\ UNCHANGED <<env, hist, pool_groups, membership, prog, argv, loc, ret,
                   exit_code, ui>>

\* EditUserScreen.update_status up to its remote call.
EditUserScreen_UpdateStatus ==
    /\ TuiReady("edit")
    /\ session = "user_screens"
    /\ prog' = "EditUserScreen.update_status"
    /\ argv' = InitArgv
    /\ calls' = <<>>
    /\ loc' = InitLoc
    /\ IF PoolIdMissing(GetUserPoolId)
       THEN /\ msg' = "Error: User Pool ID not configured"
            /\ pc' = "done"
       ELSE /\ pc' = "update_status:admin_enable_or_disable_user"
            /\ UNCHANGED msg
    /\ pool0' = pool
    /\ UNCHANGED <<env, svc, ret, exit_code, ui>>

\* update_status: admin_enable_user when the Checkbox is set,
\* admin_disable_user otherwise.
UpdateStatus_AdminEnableOrDisableUser ==
    /\ pc = "update_status:admin_enable_or_disable_user"
    /\ \E e \in UpdateOutcomes(edit_username) :
        LET enabled == edit_form.enabled IN
        /\ calls' = Append(calls,
               UserCall("EditUserScreen.update_status",
                        IF enabled THEN "admin_enable_user" ELSE "admin_disable_user",
                        edit_username, FALSE, e = OK))
        /\ IF e = OK
           THEN /\ pool' = PoolWithEnabled(edit_username, enabled)
                /\ msg' = (IF enabled THEN "User account enabled"
                           ELSE "User account disabled")
           ELSE /\ msg' = "Error: "
                       \o ErrorMessage(e, IF enabled THEN "AdminEnableUser"
                                          ELSE "AdminDisableUser")
                /\ UNCHANGED pool
    /\ pc' = "done"
    /\ UNCHANGED <<env, hist, pool_groups, membership, prog, argv, loc, ret,
                   exit_code, ui>>

\* EditUserScreen.reset_mfa up to its remote call.
EditUserScreen_ResetMfa ==
    /\ TuiReady("edit")
    /\ session = "user_screens"
    /\ prog' = "EditUserScreen.reset_mfa"
    /\ argv' = InitArgv
    /\ calls' = <<>>
    /\ loc' = InitLoc
    /\ IF PoolIdMissing(GetUserPoolId)
       THEN /\ msg' = "Error: User Pool ID not configured"
            /\ pc' = "done"
       ELSE /\ pc' = "reset_mfa:admin_set_user_mfa_preference"
            /\ UNCHANGED msg
    /\ pool0' = pool
    /\ UNCHANGED <<env, svc, ret, exit_code, ui>>

\* reset_mfa: the admin_set_user_mfa_preference call (the MFA settings are
\* not part of the user records of the pool).
ResetMfa_AdminSetUserMfaPreference ==
    /\ pc = "reset_mfa:admin_set_user_mfa_preference"
    /\ \E e \in UpdateOutcomes(edit_username) :
        /\ calls' = Append(calls,
               UserCall("EditUserScreen.reset_mfa", "admin_set_user_mfa_preference",
                        edit_username, FALSE, e = OK))
        /\ msg' = (IF e = OK THEN "MFA settings reset successfully"
                   ELSE "Error: " \o ErrorMessage(e, "AdminSetUserMFAPreference"))
    /\ pc' = "done"
    /\ UNCHANGED <<env, hist, svc, prog, argv, loc, ret, exit_code, ui>>

\* ------------------------------------------------------- specification
\* Values of AWS_COGNITO_USER_POOL_ID: unset, set to the empty string, set.
PoolIdValues == {None, "", "p"}

\* Values of EXCLUDE_USERS: unset, or a list that names the email of "u" and
\* the username "v"; the sessions on the create screen and on the screens
\* of one user run with the variable unset.
ExcludeEnvValues == {NoneText, <<"e", ",", ",", " ", "v", " ">>}

\* The pools a session can start on: users that were there before; for
\* the users screen also a test user an earlier bulk create left, for the
\* create screen "v", whose username the operator enters, or nobody, and
\* for the session that updates a user at most one user.
InitPools(s) ==
    IF s = "users_screen"
    THEN SUBSET (PreUsers \cup
                 {[Username |-> TestUserEmail(1), UserStatus |-> "CONFIRMED",
                   Enabled |-> TRUE,
                   Attributes |-> NewUserAttributes(TestUserEmail(1), "+6587654321")]})
    ELSE IF s = "user_screens"
    THEN {{}} \cup {{r} : r \in PreUsers}
    ELSE IF s = "create_screen"
    THEN SUBSET {r \in PreUsers : r.Username = "v"}
    ELSE SUBSET PreUsers

\* The group memberships a session can start on: those of "u" when the
\* functions are called on their own, none otherwise.
InitMemberships(s, users) ==
    IF s = "functions"
    THEN SUBSET {<<r.Username, g>> : r \in {x \in users : x.Username = "u"},
                                    g \in SeqToSet(GroupKeys)}
    ELSE {{}}

Init ==
    /\ session \in {"cli", "create_screen", "users_screen", "functions",
                    "user_screens", "user_groups"}
    /\ env_pool_id \in PoolIdValues
    /\ env_exclude \in (IF session \in {"create_screen", "user_screens", "user_groups"}
                         THEN {NoneText} ELSE ExcludeEnvValues)
    /\ pool \in InitPools(session)
    /\ pool_groups = SeqToSet(GroupKeys)
    /\ membership \in InitMemberships(session, pool)
    /\ prog = "none"
    /\ pc = "idle"
    /\ argv = InitArgv
    /\ loc = InitLoc
    /\ calls = <<>>
    /\ ret = <<>>
    /\ exit_code = <<>>
    /\ msg = ""
    /\ table = <<>>
    /\ selected_users = {}
    /\ group_options = <<>>
    /\ current_groups = <<>>
    /\ screens = <<"menu">>
    /\ status_below = <<>>
    /\ config_text = ""
    /\ edit_username = None
    /\ edit_form = InitForm
    /\ view_text = InitView
    /\ pool0 = pool

Next ==
    \/ CreateUsersMain
    \/ CreateSingleUser_AdminCreateUser
    \/ CreateSingleUser_AdminSetUserPassword
    \/ CreateTestUsers_AdminCreateUser
    \/ CreateTestUsers_AdminSetUserPassword
    \/ DeleteUsersMain
    \/ DeleteAllUsers_ListUsers
    \/ DeleteAllUsers_Skip
    \/ DeleteAllUsers_AdminDeleteUser
    \/ DeleteAllUsers_EndOfPage
    \/ FetchUserPoolGroups_Call
    \/ GetUserGroups_Call
    \/ ShowCreateScreen
    \/ CreateUserScreen_OnMount
    \/ ShowSettingsScreen
    \/ SettingsScreen_OnMount
    \/ UsersScreen_ViewUser
    \/ ViewUserScreen_OnMount
    \/ ViewUserScreen_EditUser
    \/ LoadUserDetails_AdminGetUser
    \/ EditUserScreen_OnMount
    \/ EditUserScreen_Input
    \/ EditUserScreen_UpdatePassword
    \/ UpdatePassword_AdminSetUserPassword
    \/ EditUserScreen_UpdateAttributes
    \/ UpdateAttributes_AdminUpdateUserAttributes
    \/ EditUserScreen_UpdateStatus
    \/ UpdateStatus_AdminEnableOrDisableUser
    \/ EditUserScreen_ResetMfa
    \/ ResetMfa_AdminSetUserMfaPreference
    \/ GoBack
    \/ FetchUserPoolGroups_ListGroups
    \/ GetUserGroups_AdminListGroupsForUser
    \/ CreateUserScreen_CreateSingleUser
    \/ TuiCreateSingle_AdminCreateUser
    \/ TuiCreateSingle_AdminSetUserPassword
    \/ CreateUserScreen_CreateBulkUsers
    \/ TuiCreateBulk_AdminCreateUser
    \/ TuiCreateBulk_AdminSetUserPassword
    \/ AddUserToGroup_AdminAddUserToGroup
    \/ RemoveUserFromGroup_AdminRemoveUserFromGroup
    \/ ShowUsersScreen
    \/ UsersScreen_OnMount
    \/ LoadUsers_ListUsers
    \/ UsersScreen_Refresh
    \/ UsersScreen_DeleteAll
    \/ TuiDeleteAll_ListUsers
    \/ TuiDeleteAll_Skip
    \/ TuiDeleteAll_AdminDeleteUser
    \/ TuiDeleteAll_EndOfPage
    \/ UsersScreen_ToggleSelection
    \/ UsersScreen_DeleteSelected
    \/ TuiDeleteSelected_AdminDeleteUser
    \/ UsersScreen_EditUser
    \/ LoadUserData_AdminGetUser
    \/ EditUserScreen_AddToGroup
    \/ EditUserScreen_RemoveFromGroup

Spec == Init /\ [][Next]_vars

\* ------------------------------------------- specification of config alone
\* The characters of the EXCLUDE_USERS values tried.
ExcludeChars == {"a", "b", ",", " ", "\t"}

\* All texts of at most n characters.
RECURSIVE TextsUpTo(_)
TextsUpTo(n) ==
    IF n = 0 THEN {<<>>}
    ELSE LET shorter == TextsUpTo(n - 1)
         IN  shorter \cup {Append(t, c) : t \in shorter, c \in ExcludeChars}

\* The process before a call of get_excluded_users, EXCLUDE_USERS unset or
\* set to any text of at most MaxTextLen characters.
InitConfig ==
    /\ session = "config"
    /\ env_pool_id = None
    /\ env_exclude \in {NoneText} \cup TextsUpTo(MaxTextLen)
    /\ pool = {}
    /\ pool_groups = {}
    /\ membership = {}
    /\ prog = "none"
    /\ pc = "idle"
    /\ argv = InitArgv
    /\ loc = InitLoc
    /\ calls = <<>>
    /\ ret = <<>>
    /\ exit_code = <<>>
    /\ msg = ""
    /\ table = <<>>
    /\ selected_users = {}
    /\ group_options = <<>>
    /\ current_groups = <<>>
    /\ screens = <<"menu">>
    /\ status_below = <<>>
    /\ config_text = ""
    /\ edit_username = None
    /\ edit_form = InitForm
    /\ view_text = InitView
    /\ pool0 = pool

\* One call of get_excluded_users().
GetExcludedUsers_Call ==
    /\ session = "config"
    /\ pc = "idle"
    /\ prog' = "get_excluded_users"
    /\ ret' = <<GetExcludedUsers(env_exclude)>>
    /\ pc' = "done"
    /\ UNCHANGED <<env, svc, hist, argv, loc, calls, exit_code, msg, ui>>

NextConfig == GetExcludedUsers_Call

SpecConfig == InitConfig /\ [][NextConfig]_vars

\* -------------------------------------------------------------- properties
\* The usernames a bulk create is to attempt, written out.
ExpectedTestUser ==
    <<"testuser1@example.com", "testuser2@example.com",
      "testuser3@example.com", "testuser4@example.com">>

Max(a, b) == IF a >= b THEN a ELSE b

Last(s) == s[Len(s)]

IsCreate(c) == c.op = "admin_create_user"

IsSetPassword(c) == c.op = "admin_set_user_password"

IsDelete(c) == c.op = "admin_delete_user"

IsGroupChange(c) ==
    c.op \in {"admin_add_user_to_group", "admin_remove_user_from_group"}

IsListing(c) ==
    c.op \in {"list_users", "list_groups", "admin_list_groups_for_user"}

IsFailed(c) == ~c.ok

\* The two delete-all handlers: delete_users.py and the users screen.
DeleteAllRun == prog \in {"delete_users.main", "UsersScreen.delete_all_users"}

\* The record a user had when the running handler started.
RecordAtStart(username) == CHOOSE r \in pool0 : r.Username = username

\* C1: a user whose username or whose email is in the exclusion list is
\* never deleted by a delete-all, neither by delete_users.py nor by the
\* users screen.
C1_ExcludedNeverDeleted ==
    DeleteAllRun =>
        \A k \in 1..Len(calls) :
            (IsDelete(calls[k]) /\ calls[k].ok) =>
                LET user == RecordAtStart(calls[k].Username) IN
                /\ user.Username \notin loc.excluded
                /\ EmailOf(user.Attributes) \notin loc.excluded

\* A bulk create: create_users.py without --email, or the create screen's
\* bulk handler.
BulkCreateRun ==
    \/ prog = "create_users.main" /\ ~Truthy(argv.email)
    \/ prog = "CreateUserScreen.create_bulk_users"

\* The number of users the running bulk create was asked for.
RequestedUsers == Max(loc.num_users, 0)

CreateAttempts == SelectSeq(calls, IsCreate)

\* C2: a bulk create of N users attempts exactly the usernames
\* testuser1@example.com .. testuser<N>@example.com, once each and in that
\* order, and makes no call about any other username.
C2_BulkCreateAttempts ==
    BulkCreateRun =>
        /\ Len(CreateAttempts) <= RequestedUsers
        /\ \A k \in 1..Len(CreateAttempts) :
               CreateAttempts[k].Username = ExpectedTestUser[k]
        /\ \A k \in 1..Len(calls) :
               \E j \in 1..RequestedUsers : calls[k].Username = ExpectedTestUser[j]
        /\ (pc = "done" => Len(CreateAttempts) = RequestedUsers)

\* A bulk create of two users went through both although the first failed.
C2_Witness ==
    /\ prog = "create_users.main"
    /\ ~Truthy(argv.email)
    /\ pc = "done"
    /\ loc.num_users = 2
    /\ Len(CreateAttempts) = 2
    /\ ~CreateAttempts[1].ok

\* create_users.py in bulk mode, past the argument and pool-ID checks.
CliBulkRun ==
    /\ prog = "create_users.main"
    /\ ~Truthy(argv.email)
    /\ argv.num_users # <<>>
    /\ Truthy(env_pool_id)

\* C3: in create_test_users a failure for user i is counted and the loop
\* goes on; the run ends and returns (created_count, failed_count) with
\* created_count + failed_count = N, for N >= 0.
C3_CountsAddUp ==
    (CliBulkRun /\ argv.num_users[1] >= 0) =>
        LET N == argv.num_users[1] IN
        /\ pc # "done" =>
               /\ loc.i \in 1..N
               /\ loc.created_count + loc.failed_count = loc.i - 1
               /\ ret = <<>>
        /\ pc = "done" =>
               /\ ret = << <<loc.created_count, loc.failed_count>> >>
               /\ loc.created_count + loc.failed_count = N
               /\ loc.failed_count = Len(SelectSeq(calls, IsFailed))
               /\ loc.created_count
                      = Len(SelectSeq(calls, IsSetPassword)) - 
                        Len(SelectSeq(SelectSeq(calls, IsSetPassword), IsFailed))

\* User 1 failed, the loop went on and user 2 was created.
C3_Witness ==
    /\ CliBulkRun
    /\ pc = "done"
    /\ argv.num_users = <<2>>
    /\ ~calls[1].ok
    /\ ret = << <<1, 1>> >>

\* Whether testuser<k> was in the pool when the running handler started.
AlreadyThere(k) == \E r \in pool0 : r.Username = ExpectedTestUser[k]

\* C4: test users that are already in the pool are counted as failures by a
\* bulk create, get no admin_set_user_password call and stay as they were;
\* when all N are there the run returns (0, N) and leaves the pool as it was.
C4_ExistingUsersAreFailures ==
    (CliBulkRun /\ argv.num_users[1] >= 0) =>
        LET N    == argv.num_users[1]
            K    == {k \in 1..N : AlreadyThere(k)}
            done == {k \in 1..N : k < loc.i \/ pc = "done"}
        IN
        /\ \A k \in K :
               /\ \A j \in 1..Len(calls) :
                      calls[j].Username = ExpectedTestUser[k]
                          => IsCreate(calls[j]) /\ ~calls[j].ok
               /\ RecordAtStart(ExpectedTestUser[k]) \in pool
        /\ loc.failed_count >= Cardinality(K \cap done)
        /\ loc.created_count <= Cardinality(done \ K)
        /\ (pc = "done" /\ K = 1..N) =>
               /\ ret = << <<0, N>> >>
               /\ pool = pool0

\* The second of two identical runs: both test users were there.
C4_Witness ==
    /\ CliBulkRun
    /\ pc = "done"
    /\ argv.num_users = <<2>>
    /\ AlreadyThere(1)
    /\ AlreadyThere(2)
    /\ ret = << <<0, 2>> >>

DeletedUsers ==
    {calls[k].Username : k \in {j \in 1..Len(calls) : IsDelete(calls[j]) /\ calls[j].ok}}

\* C5: a provider error during a delete-all ends the run at once: the
\* failing call is the last one, the users deleted before it stay deleted,
\* nothing else is touched, and delete_users.py still returns
\* (deleted_count, skipped_count) with deleted_count the number of
\* successful admin_delete_user calls.
C5_DeleteAllAborts ==
    DeleteAllRun =>
        /\ \A k \in 1..Len(calls) :
               ~calls[k].ok => (k = Len(calls) /\ pc = "done")
        /\ pool = {r \in pool0 : r.Username \notin DeletedUsers}
        /\ (prog = "delete_users.main" /\ pc = "done" /\ Truthy(env_pool_id)) =>
               /\ ret = << <<loc.deleted_count, loc.skipped_count>> >>
               /\ loc.deleted_count = Cardinality(DeletedUsers)
               /\ loc.deleted_count = Len(SelectSeq(calls, IsDelete))
                                      - Len(SelectSeq(SelectSeq(calls, IsDelete), IsFailed))

\* delete_users.py deleted a user and then met a failing admin_delete_user.
C5_Witness ==
    /\ prog = "delete_users.main"
    /\ pc = "done"
    /\ calls # <<>>
    /\ IsDelete(Last(calls))
    /\ ~Last(calls).ok
    /\ ret # <<>>
    /\ ret[1][1] >= 1

\* The routines that page through a listing.
ListingRoutines ==
    {"delete_all_users", "UsersScreen.delete_all_users", "load_users",
     "fetch_user_pool_groups", "get_user_groups"}

ListingCallsOf(routine) ==
    LET ByRoutine(c) == c.routine = routine /\ IsListing(c)
    IN  SelectSeq(calls, ByRoutine)

\* C6: every paginated loop sends no token on its first request, sends on
\* each later request exactly the token of the response before, asks again
\* only when that token was non-empty, does not stop while a token is
\* present unless a call failed, and makes a bounded number of requests.
C6_PaginationTokens ==
    \A routine \in ListingRoutines :
        LET L == ListingCallsOf(routine) IN
        /\ L # <<>> => L[1].Token = None
        /\ \A k \in 2..Len(L) :
               /\ L[k - 1].ok
               /\ Truthy(L[k - 1].NextToken)
               /\ L[k].Token = L[k - 1].NextToken
        /\ \A k \in 1..Len(L) : \A j \in 1..(k - 1) : L[j].Token # L[k].Token
        /\ Len(L) <= Max(Len(UserKeys), Len(GroupKeys))
        /\ (pc = "done" /\ L # <<>> /\ Last(L).ok /\ Truthy(Last(L).NextToken))
               => ~Last(calls).ok

\* A delete-all that needed two pages and ended on an empty token.
C6_Witness ==
    LET L == ListingCallsOf("delete_all_users") IN
    /\ pc = "done"
    /\ Len(L) = 2
    /\ L[2].Token # None
    /\ L[2].ok
    /\ L[2].NextToken = ""
    /\ \A k \in 1..Len(calls) : calls[k].ok

\* C7: add_user_to_group and remove_user_from_group return (True, "") when
\* the remote call succeeds and (False, message) with a non-empty message
\* when it raises a ClientError.
C7_GroupResult ==
    loc.group_result # <<>> =>
        LET G == SelectSeq(calls, IsGroupChange) IN
        /\ G # <<>>
        /\ IF Last(G).ok
           THEN loc.group_result = <<TRUE, "">>
           ELSE /\ loc.group_result[1] = FALSE
                /\ loc.group_result[2] # ""

CreateRoutines ==
    {"create_single_user", "create_test_users",
     "CreateUserScreen.create_single_user", "CreateUserScreen.create_bulk_users"}

SetPasswordSteps ==
    {"create_single_user:admin_set_user_password",
     "create_test_users:admin_set_user_password",
     "tui_create_single:admin_set_user_password",
     "tui_create_bulk:admin_set_user_password"}

\* C8: in every create routine a successful admin_create_user is followed,
\* as the very next remote call, by admin_set_user_password for the same
\* username with Permanent=True, and admin_set_user_password is never
\* called for a username whose admin_create_user failed in the run.
C8_PasswordFollowsCreate ==
    \A k \in 1..Len(calls) :
        /\ (IsCreate(calls[k]) /\ calls[k].ok) =>
               IF k < Len(calls)
               THEN /\ IsSetPassword(calls[k + 1])
                    /\ calls[k + 1].Username = calls[k].Username
                    /\ calls[k + 1].Permanent = TRUE
               ELSE pc \in SetPasswordSteps
        /\ (IsSetPassword(calls[k]) /\ calls[k].routine \in CreateRoutines) =>
               /\ k > 1
               /\ IsCreate(calls[k - 1])
               /\ calls[k - 1].ok
               /\ calls[k - 1].Username = calls[k].Username
        /\ (IsCreate(calls[k]) /\ ~calls[k].ok) =>
               \A j \in 1..Len(calls) :
                   IsSetPassword(calls[j]) => calls[j].Username # calls[k].Username

\* A bulk create in which one create failed and another was followed by
\* its password call.
C8_Witness ==
    /\ Len(calls) >= 3
    /\ \E k \in 1..Len(calls) : IsCreate(calls[k]) /\ ~calls[k].ok
    /\ \E k \in 1..(Len(calls) - 1) :
           /\ IsCreate(calls[k])
           /\ calls[k].ok
           /\ IsSetPassword(calls[k + 1])
           /\ calls[k + 1].ok

\* A run of one of the two command-line entry points.
CliRun == session = "cli" /\ prog \in {"create_users.main", "delete_users.main"}

\* The command line is one the argument parser rejects.
ArgumentsRejected ==
    /\ prog = "create_users.main"
    /\ argv.text # NoneText
    /\ ParseInt(argv.text) = <<>>

\* C9 as stated: when the pool ID is not configured both entry points exit
\* with code 1 and make no remote call, whatever the other arguments are.
C9_Original ==
    (CliRun /\ ~Truthy(env_pool_id)) =>
        /\ pc = "done"
        /\ exit_code = <<1>>
        /\ calls = <<>>

\* C9, amended: when the pool ID is not configured both entry points make
\* no remote call and exit with code 1 for every command line the argument
\* parser accepts; a rejected command line exits with code 2.
C9_NoPoolId ==
    (CliRun /\ ~Truthy(env_pool_id)) =>
        /\ pc = "done"
        /\ calls = <<>>
        /\ pool = pool0
        /\ exit_code = <<IF ArgumentsRejected THEN 2 ELSE 1>>

\* create_users.py was asked for two users with an empty pool ID.
C9_Witness ==
    /\ prog = "create_users.main"
    /\ env_pool_id = ""
    /\ argv.num_users = <<2>>
    /\ exit_code = <<1>>
    /\ calls = <<>>

\* C10 as stated: with the pool ID configured the entry points exit with
\* code 0 on success and on partial completion; code 1 is produced only
\* when the pool ID is missing.
C10_Original ==
    (CliRun /\ pc = "done") =>
        /\ exit_code = <<1>> => ~Truthy(env_pool_id)
        /\ CliBulkRun => exit_code = <<0>>
        /\ (prog = "delete_users.main" /\ Truthy(env_pool_id)) => exit_code = <<0>>

\* C10, amended: with the pool ID configured a bulk create and a delete-all
\* exit with code 0 whatever failed; code 1 is produced only when the pool
\* ID is missing or when, with --email, the creation of that user failed.
C10_ExitCodes ==
    (CliRun /\ pc = "done") =>
        /\ exit_code = <<1>> =>
               \/ ~Truthy(env_pool_id)
               \/ Truthy(argv.email) /\ ret = <<FALSE>>
        /\ CliBulkRun => exit_code = <<0>>
        /\ (prog = "delete_users.main" /\ Truthy(env_pool_id)) => exit_code = <<0>>
        /\ (prog = "create_users.main" /\ Truthy(env_pool_id)
              /\ Truthy(argv.email) /\ ~ArgumentsRejected) =>
               /\ ret \in {<<TRUE>>, <<FALSE>>}
               /\ exit_code = <<IF ret = <<TRUE>> THEN 0 ELSE 1>>

\* A bulk create in which a user failed, and a delete-all that aborted,
\* both exit with code 0.
C10_Witness ==
    /\ CliBulkRun
    /\ pc = "done"
    /\ loc.failed_count >= 1
    /\ loc.created_count >= 1
    /\ exit_code = <<0>>

\* The handlers of the users screen that start with load_users.
ReloadingHandlers == {"UsersScreen.on_mount", "UsersScreen.action_refresh"}

\* The handlers of the users screen that end with load_users.
DeletingHandlers ==
    {"UsersScreen.delete_all_users", "UsersScreen.action_delete_selected"}

\* load_users was entered in the running handler.
LoadUsersRan ==
    \/ prog \in ReloadingHandlers
    \/ /\ prog \in DeletingHandlers
       /\ \/ pc = "load_users:list_users"
          \/ \E k \in 1..Len(calls) : calls[k].routine = "load_users"

\* C11: once load_users was entered (on mount, on Refresh, after Delete
\* Selected, after Delete All) the selection is empty, whether the reload
\* succeeds, fails with a provider error or stops for a missing pool ID;
\* and a delete handler that met no error did enter it.
C11_SelectionClearedOnReload ==
    /\ LoadUsersRan => selected_users = {}
    /\ (prog \in DeletingHandlers /\ pc = "done" /\ calls # <<>>
          /\ \A k \in 1..Len(calls) : calls[k].ok) => LoadUsersRan

\* Delete Selected, started with a selection, deleted it and its reload
\* failed with a provider error.
C11_Witness ==
    /\ prog = "UsersScreen.action_delete_selected"
    /\ pc = "done"
    /\ calls # <<>>
    /\ Last(calls).routine = "load_users"
    /\ ~Last(calls).ok
    /\ selected_users = {}

\* Two calls are the same request: the operation and its arguments agree.
SameRequest(a, b) ==
    /\ a.op = b.op
    /\ a.Username = b.Username
    /\ a.Token = b.Token
    /\ a.GroupName = b.GroupName
    /\ a.Permanent = b.Permanent

\* The handlers that stop at the first provider error.
StoppingHandlers ==
    {"delete_users.main", "UsersScreen.delete_all_users",
     "UsersScreen.action_delete_selected"}

\* C12: a remote call that failed is never issued again with the same
\* arguments in the same run or handler invocation; in a bulk create the
\* call after a failed one is the admin_create_user of the next user, and
\* in delete-all and delete-selected a failed call is the last one.
C12_NoRetry ==
    /\ \A k \in 1..Len(calls) : \A j \in (k + 1)..Len(calls) :
           ~calls[k].ok => ~SameRequest(calls[j], calls[k])
    /\ BulkCreateRun =>
           \A k \in 1..(Len(calls) - 1) :
               ~calls[k].ok =>
                   /\ IsCreate(calls[k + 1])
                   /\ \E i \in 1..(Len(ExpectedTestUser) - 1) :
                          /\ calls[k].Username = ExpectedTestUser[i]
                          /\ calls[k + 1].Username = ExpectedTestUser[i + 1]
    /\ prog \in StoppingHandlers =>
           \A k \in 1..Len(calls) :
               ~calls[k].ok => (k = Len(calls) /\ pc = "done")

\* The create screen's bulk create went on to the second user after the
\* password call of the first one failed.
C12_Witness ==
    /\ prog = "CreateUserScreen.create_bulk_users"
    /\ Len(calls) >= 3
    /\ IsSetPassword(calls[2])
    /\ ~calls[2].ok
    /\ IsCreate(calls[3])
    /\ calls[3].Username = ExpectedTestUser[2]

\* The exclusion set of the running delete-all matches the user: by
\* username or by email.
MatchedByExclusion(user) ==
    \/ user.Username \in loc.excluded
    \/ EmailOf(user.Attributes) \in loc.excluded

\* The successful admin_delete_user calls of the run.
DeleteCallsOk ==
    {k \in 1..Len(calls) : IsDelete(calls[k]) /\ calls[k].ok}

\* A delete-all that ended without any provider error.
DeleteAllCompleted ==
    /\ DeleteAllRun
    /\ pc = "done"
    /\ Truthy(env_pool_id)
    /\ \A k \in 1..Len(calls) : calls[k].ok

\* C13: a delete-all without provider errors deletes every user that the
\* exclusion set does not match, each exactly once, leaves only excluded
\* users in the pool, and deleted_count + skipped_count is the number of
\* users the pool held at the start; for every page size.
C13_DeleteAllComplete ==
    /\ DeleteAllRun =>
           \A j, k \in DeleteCallsOk :
               calls[j].Username = calls[k].Username => j = k
    /\ DeleteAllCompleted =>
           /\ \A user \in pool0 :
                  ~MatchedByExclusion(user) =>
                      /\ user \notin pool
                      /\ \E k \in DeleteCallsOk : calls[k].Username = user.Username
           /\ pool \subseteq pool0
           /\ \A user \in pool : MatchedByExclusion(user)
           /\ loc.deleted_count + loc.skipped_count = Cardinality(pool0)
           /\ loc.deleted_count = Cardinality(DeleteCallsOk)

\* A users-screen delete-all over two pages that deleted one user and
\* skipped two, one excluded by username and one by email.
C13_Witness ==
    /\ prog = "UsersScreen.delete_all_users"
    /\ DeleteAllCompleted
    /\ Len(ListingCallsOf("UsersScreen.delete_all_users")) >= 2
    /\ loc.deleted_count = 1
    /\ loc.skipped_count = 2

\* The exclusion set the environment configures.
ConfiguredExclusions == SeqToSet(GetExcludedUsers(env_exclude))

\* C14: in the users screen no selected username belongs to a row marked
\* [E] or to a row whose username or email is in the exclusion set, every
\* selected username has a row, and Delete Selected never calls
\* admin_delete_user for a user whose username or email is in that set.
C14_ExcludedNotSelectable ==
    /\ \A u \in selected_users : \E row \in 1..Len(table) : table[row][2] = u
    /\ \A row \in 1..Len(table) :
           table[row][2] \in selected_users =>
               /\ table[row][1] # "[E]"
               /\ table[row][2] \notin ConfiguredExclusions
               /\ table[row][3] \notin ConfiguredExclusions
    /\ \A k \in 1..Len(calls) :
           calls[k].routine = "UsersScreen.action_delete_selected" =>
               /\ IsDelete(calls[k])
               /\ calls[k].Username \notin ConfiguredExclusions
               /\ \A user \in pool0 :
                      user.Username = calls[k].Username =>
                          EmailOf(user.Attributes) \notin ConfiguredExclusions

\* A row marked [E] was toggled while another user was selected, and
\* nothing changed.
C14_Witness ==
    /\ prog = "UsersScreen.toggle_selection"
    /\ argv.row > 0
    /\ table[argv.row][1] = "[E]"
    /\ table[argv.row][3] \in ConfiguredExclusions
    /\ selected_users # {}

\* A username that EXCLUDE_USERS or --exclude lists.
ListedInEitherSource(username) ==
    \/ username \in ConfiguredExclusions
    \/ \E k \in 1..Len(argv.exclude) : argv.exclude[k] = username

\* C15: delete_users.py never calls admin_delete_user for a username that
\* EXCLUDE_USERS or --exclude lists; in a run without provider errors the
\* listed usernames stay in the pool and are counted in skipped_count, and
\* the usernames listed in neither are deleted.
C15_UnionOfExclusionSources ==
    prog = "delete_users.main" =>
        /\ \A k \in 1..Len(calls) :
               IsDelete(calls[k]) => ~ListedInEitherSource(calls[k].Username)
        /\ DeleteAllCompleted =>
               /\ \A user \in pool0 :
                      IF ListedInEitherSource(user.Username)
                      THEN user \in pool
                      ELSE /\ user \notin pool
                           /\ user.Username \in DeletedUsers
               /\ loc.skipped_count
                      = Cardinality({user \in pool0 : ListedInEitherSource(user.Username)})
               /\ ret = << <<loc.deleted_count, loc.skipped_count>> >>

\* A run that skipped "v" for EXCLUDE_USERS and "u" for --exclude.
C15_Witness ==
    /\ prog = "delete_users.main"
    /\ DeleteAllCompleted
    /\ env_exclude # NoneText
    /\ argv.exclude = <<"u">>
    /\ Cardinality(pool0) = 2
    /\ pool = pool0
    /\ ret = << <<0, 2>> >>

\* The entries a text of EXCLUDE_USERS spells, by positions: the cuts are
\* the commas and the two ends, a piece lies between two neighbouring cuts,
\* and a piece with a character that is no whitespace gives the entry from
\* its first to its last such character.
CutsOf(t) == {0, Len(t) + 1} \cup {k \in 1..Len(t) : t[k] = ","}

NextCut(t, a) ==
    CHOOSE b \in CutsOf(t) : b > a /\ \A c \in CutsOf(t) : ~(a < c /\ c < b)

InkOf(t, a) == {k \in (a + 1)..(NextCut(t, a) - 1) : t[k] \notin {" ", "\t"}}

KeptCuts(t) == {a \in CutsOf(t) \ {Len(t) + 1} : InkOf(t, a) # {}}

EntryAt(t, a) ==
    LET first == CHOOSE k \in InkOf(t, a) : \A h \in InkOf(t, a) : k <= h
        last  == CHOOSE k \in InkOf(t, a) : \A h \in InkOf(t, a) : k >= h
    IN  Join(SubSeq(t, first, last))

ExpectedEntries(t) ==
    [i \in 1..Cardinality(KeptCuts(t)) |->
        EntryAt(t, CHOOSE a \in KeptCuts(t) :
                       Cardinality({c \in KeptCuts(t) : c < a}) = i - 1)]

\* C16: get_excluded_users returns the comma-separated entries of
\* EXCLUDE_USERS in order, each stripped of surrounding whitespace, without
\* the empty and whitespace-only ones; the empty list when the variable is
\* unset or empty; never the empty string.
C16_GetExcludedUsers ==
    (session = "config" /\ pc = "done") =>
        LET result == ret[1] IN
        /\ env_exclude \in {NoneText, <<>>} => result = <<>>
        /\ env_exclude # NoneText =>
               /\ Len(result) = Cardinality(KeptCuts(env_exclude))
               /\ \A i \in 1..Len(result) : result[i] = ExpectedEntries(env_exclude)[i]
        /\ \A i \in 1..Len(result) : result[i] # ""

\* " b,a" gave ["b", "a"].
C16_Witness ==
    /\ session = "config"
    /\ pc = "done"
    /\ env_exclude = <<" ", "b", ",", "a">>
    /\ ret = << <<"b", "a">> >>

\* create_users.py in single-user mode, past the argument and pool-ID checks.
CliSingleRun ==
    /\ prog = "create_users.main"
    /\ Truthy(argv.email)
    /\ Truthy(env_pool_id)
    /\ ~ArgumentsRejected

\* C17: in single-user mode create_single_user returns True exactly when
\* admin_create_user and admin_set_user_password both succeeded and False
\* on a provider error of either, main returns 0 for True and 1 for False,
\* and every call is about the given email: no test user is attempted.
C17_SingleUserMode ==
    CliSingleRun =>
        LET both == /\ Len(calls) = 2
                    /\ calls[1].ok
                    /\ calls[2].ok
        IN
        /\ \A k \in 1..Len(calls) :
               /\ calls[k].Username = argv.email
               /\ calls[k].routine = "create_single_user"
        /\ Len(calls) <= 2
        /\ Len(calls) >= 1 => IsCreate(calls[1])
        /\ Len(calls) = 2 => (calls[1].ok /\ IsSetPassword(calls[2]))
        /\ pc # "done" => (ret = <<>> /\ exit_code = <<>>)
        /\ pc = "done" =>
               /\ calls # <<>>
               /\ ret = <<both>>
               /\ (~Last(calls).ok) => ret = <<FALSE>>
               /\ exit_code = <<IF both THEN 0 ELSE 1>>

\* The user was created, the password call failed: False and exit code 1.
C17_Witness ==
    /\ CliSingleRun
    /\ pc = "done"
    /\ Len(calls) = 2
    /\ ~calls[2].ok
    /\ ret = <<FALSE>>
    /\ exit_code = <<1>>

\* In the running bulk create, user i was created and its password set.
BothSucceeded(i) ==
    \E k \in 1..(Len(calls) - 1) :
        /\ IsCreate(calls[k])
        /\ calls[k].ok
        /\ calls[k].Username = ExpectedTestUser[i]
        /\ IsSetPassword(calls[k + 1])
        /\ calls[k + 1].ok

\* User i was created and its password call failed.
CreatedWithoutPassword(i) ==
    \E k \in 1..(Len(calls) - 1) :
        /\ IsCreate(calls[k])
        /\ calls[k].ok
        /\ calls[k].Username = ExpectedTestUser[i]
        /\ IsSetPassword(calls[k + 1])
        /\ ~calls[k + 1].ok

\* C18: in create_test_users created_count is the number of users for
\* which admin_create_user and admin_set_user_password both succeeded; a
\* user that was created but whose password call failed is counted in
\* failed_count, stays in the pool without the permanent password, and no
\* call undoes its creation.
C18_CreatedCount ==
    (CliBulkRun /\ argv.num_users[1] >= 0) =>
        LET N    == argv.num_users[1]
            half == {i \in 1..N : CreatedWithoutPassword(i)}
        IN
        /\ loc.created_count = Cardinality({i \in 1..N : BothSucceeded(i)})
        /\ loc.failed_count >= Cardinality(half)
        /\ loc.failed_count = Len(SelectSeq(calls, IsFailed))
        /\ \A i \in half :
               /\ \E user \in pool :
                      /\ user.Username = ExpectedTestUser[i]
                      /\ user.UserStatus = "FORCE_CHANGE_PASSWORD"
               /\ ~BothSucceeded(i)
        /\ \A k \in 1..Len(calls) : IsCreate(calls[k]) \/ IsSetPassword(calls[k])

\* Of two users the first was created without password, the second fully.
C18_Witness ==
    /\ CliBulkRun
    /\ pc = "done"
    /\ argv.num_users = <<2>>
    /\ CreatedWithoutPassword(1)
    /\ BothSucceeded(2)
    /\ ret = << <<1, 1>> >>


\* The listing calls fetch_user_pool_groups and get_user_groups have made in
\* the running handler.
GroupListing == ListingCallsOf("fetch_user_pool_groups")

UserGroupListing == ListingCallsOf("get_user_groups")

\* A paginated loop, given its calls so far, has read its last page.
ReadToTheEnd(listing) ==
    /\ listing # <<>>
    /\ Last(listing).ok
    /\ ~Truthy(Last(listing).NextToken)

\* The two groups of the pool as (name, name) pairs in name order.
AllGroupPairs == << <<"a", "a">>, <<"b", "b">> >>

\* The names of the groups the user named is in, as the service lists them.
GroupsListedFor(username) ==
    LET IsIn(g) == <<username, g>> \in membership
    IN  SelectSeq(<<"b", "a">>, IsIn)

\* The view screen does not keep the list get_user_groups returns but shows
\* it; the texts it shows for the lists the pool allows, written out.
ShowsUserGroups == prog = "ViewUserScreen.on_mount"

GroupsShown(names) ==
    IF names = <<>> THEN "  (none)"
    ELSE IF names = <<"a">> THEN "  a"
    ELSE IF names = <<"b">> THEN "  b"
    ELSE "  b, a"

\* The handlers that start with a call of one of the two functions and keep
\* what it returns.
StartsWithGroupFetch ==
    prog \in {"fetch_user_pool_groups", "CreateUserScreen.on_mount"}

\* C19: fetch_user_pool_groups and get_user_groups are all or nothing. When
\* every page was read, the first returns every group of the pool as
\* (name, name) pairs sorted by name and the second the names of every group
\* of the user; when a page request fails, also after pages that succeeded,
\* they return the empty list, nothing is raised and the caller goes on; and
\* with an empty pool ID (or, for get_user_groups, an empty username) they
\* return the empty list without a remote call.
C19_GroupListsAllOrNothing ==
    /\ ReadToTheEnd(GroupListing) => group_options = AllGroupPairs
    /\ (GroupListing # <<>> /\ IsFailed(Last(GroupListing)))
           => /\ group_options = <<>>
              /\ pc \in {"done", "get_user_groups:admin_list_groups_for_user"}
    /\ \A k \in 1..(Len(GroupListing) - 1) : GroupListing[k].ok
    /\ ReadToTheEnd(UserGroupListing)
           => IF ShowsUserGroups
              THEN view_text.groups = GroupsShown(GroupsListedFor(edit_username))
              ELSE current_groups = GroupsListedFor(edit_username)
    /\ (UserGroupListing # <<>> /\ IsFailed(Last(UserGroupListing)))
           => /\ IF ShowsUserGroups
                 THEN view_text.groups = GroupsShown(<<>>)
                 ELSE current_groups = <<>>
              /\ pc = "done"
    /\ \A k \in 1..(Len(UserGroupListing) - 1) : UserGroupListing[k].ok
    /\ (StartsWithGroupFetch /\ ~Truthy(env_pool_id))
           => calls = <<>> /\ group_options = <<>> /\ pc = "done"
    /\ (prog = "get_user_groups"
            /\ (~Truthy(env_pool_id) \/ ~Truthy(edit_username)))
           => calls = <<>> /\ current_groups = <<>> /\ pc = "done"

\* A second page of groups failed after a first one was read, and the list
\* returned is empty; a call with an empty username returned at once.
C19_Witness ==
    /\ Len(GroupListing) = 2
    /\ GroupListing[1].ok
    /\ IsFailed(GroupListing[2])
    /\ group_options = <<>>
    /\ prog = "fetch_user_pool_groups"

DeleteSelectedRun == prog = "UsersScreen.action_delete_selected"

\* The positions of the running handler's admin_delete_user calls in the log.
DeleteSteps == {k \in 1..Len(calls) : IsDelete(calls[k])}

DeleteRequested == {calls[k].Username : k \in DeleteSteps}

DeleteSucceeded == {calls[k].Username : k \in {j \in DeleteSteps : calls[j].ok}}

DeleteFailed == \E k \in DeleteSteps : IsFailed(calls[k])

\* The usernames of the rows that carry the selection mark.
MarkedRows == {table[r][2] : r \in {q \in 1..Len(table) : table[q][1] = "[X]"}}

\* C20: Delete Selected issues one admin_delete_user per username of the
\* selection it started with, each at most once. When all of them succeed
\* the list is reloaded and the selection is empty afterwards. When one
\* fails it is the last call of the handler: no further delete, no reload,
\* and the selection and its marked rows are as they were, so they still
\* hold the usernames already deleted in that run.
C20_DeleteSelected ==
    DeleteSelectedRun =>
        /\ \A k \in 1..Len(calls) :
               \/ /\ IsDelete(calls[k])
                  /\ calls[k].routine = "UsersScreen.action_delete_selected"
               \/ calls[k].routine = "load_users"
        /\ \A j, k \in DeleteSteps : calls[j].Username = calls[k].Username => j = k
        /\ DeleteRequested \subseteq loc.usernames
        /\ pc = "delete_selected:admin_delete_user"
               => /\ ~DeleteFailed
                  /\ DeleteRequested # loc.usernames
                  /\ selected_users = loc.usernames
                  /\ MarkedRows = loc.usernames
        /\ DeleteFailed
               => /\ IsFailed(Last(calls))
                  /\ IsDelete(Last(calls))
                  /\ \A k \in 1..(Len(calls) - 1) : calls[k].ok
                  /\ pc = "done"
                  /\ selected_users = loc.usernames
                  /\ MarkedRows = loc.usernames
                  /\ DeleteSucceeded \subseteq selected_users
                  /\ \A r \in pool : r.Username \notin DeleteSucceeded
        /\ (calls # <<>> /\ ~DeleteFailed /\ pc # "delete_selected:admin_delete_user")
               => /\ DeleteSucceeded = loc.usernames
                  /\ LoadUsersRan
                  /\ selected_users = {}
                  /\ MarkedRows = {}

\* Two users were selected; the first delete succeeded and the second
\* failed: the handler stopped and the selection still names both.
C20_Witness ==
    /\ DeleteSelectedRun
    /\ Len(calls) = 2
    /\ calls[1].ok
    /\ IsFailed(calls[2])
    /\ pc = "done"
    /\ Cardinality(selected_users) = 2
    /\ calls[1].Username \in selected_users
    /\ \A r \in pool : r.Username # calls[1].Username

AddToGroupRun == prog = "EditUserScreen.add_to_group"

RemoveFromGroupRun == prog = "EditUserScreen.remove_from_group"

\* The positions of the membership changes in a call log.
GroupChangeSteps(log) == {k \in 1..Len(log) : IsGroupChange(log[k])}

\* The handler's selected group is among the names in current_groups.
SelectedIsCurrent ==
    \E k \in 1..Len(current_groups) : current_groups[k] = loc.selected_group

\* What holds in every state of the two group handlers of the edit screen.
C21_GroupHandlerStates ==
    (AddToGroupRun \/ RemoveFromGroupRun) =>
        /\ Cardinality(GroupChangeSteps(calls)) <= 1
        /\ \A k \in GroupChangeSteps(calls) :
               /\ k = 1
               /\ calls[k].op = (IF AddToGroupRun THEN "admin_add_user_to_group"
                                 ELSE "admin_remove_user_from_group")
               /\ calls[k].Username = edit_username
               /\ calls[k].GroupName = loc.selected_group
               /\ Truthy(calls[k].GroupName)
               /\ calls[k].GroupName # BLANK
        /\ pc = "add_user_to_group:admin_add_user_to_group"
               => Truthy(loc.selected_group) /\ ~SelectedIsCurrent
        /\ pc = "remove_user_from_group:admin_remove_user_from_group"
               => Truthy(loc.selected_group) /\ SelectedIsCurrent
        /\ (calls # <<>> /\ calls[1].ok /\ pc = "done")
               => /\ UserGroupListing # <<>>
                  /\ ReadToTheEnd(UserGroupListing)
                         => /\ current_groups = GroupsListedFor(edit_username)
                            /\ SelectedIsCurrent <=> AddToGroupRun
                  /\ IsFailed(Last(UserGroupListing)) => current_groups = <<>>
        /\ (calls # <<>> /\ IsFailed(calls[1]))
               => Len(calls) = 1 /\ pc = "done"

\* A step of the two group handlers changes current_groups only as the
\* reload that follows a successful membership change.
C21_GroupHandlerSteps ==
    (prog' \in {"EditUserScreen.add_to_group", "EditUserScreen.remove_from_group"}
        /\ current_groups' # current_groups)
    => /\ pc = "get_user_groups:admin_list_groups_for_user"
       /\ GroupChangeSteps(calls) # {}
       /\ calls[1].ok

\* C21: in the edit screen Add to Group issues admin_add_user_to_group only
\* with a group selected that is not in current_groups, Remove from Group
\* issues admin_remove_user_from_group only with a selected group that is in
\* current_groups, current_groups is reloaded from the service after each
\* successful add or remove, and it keeps its value when the call fails or
\* the handler refuses.
C21_EditGroupMembership ==
    /\ []C21_GroupHandlerStates
    /\ [][C21_GroupHandlerSteps]_vars

\* A remove was issued for a group of current_groups and failed: the handler
\* stopped with the group still in current_groups.
C21_Witness ==
    /\ RemoveFromGroupRun
    /\ Len(calls) = 1
    /\ IsGroupChange(calls[1])
    /\ IsFailed(calls[1])
    /\ pc = "done"
    /\ SelectedIsCurrent

\* A bulk create of the create screen that got past its checks.
TuiBulkRun ==
    /\ prog = "CreateUserScreen.create_bulk_users"
    /\ loc.num_users >= 1

IsOk(c) == c.ok

IsFailedGroupAdd(c) == IsGroupChange(c) /\ IsFailed(c)

IsFailedUserCall(c) == (IsCreate(c) \/ IsSetPassword(c)) /\ IsFailed(c)

\* Call k of the log adds to a group a user that the two calls before it
\* created and gave its password.
FollowsFullCreate(k) ==
    /\ k >= 3
    /\ IsCreate(calls[k - 2])
    /\ calls[k - 2].ok
    /\ calls[k - 2].Username = calls[k].Username
    /\ IsSetPassword(calls[k - 1])
    /\ calls[k - 1].ok
    /\ calls[k - 1].Username = calls[k].Username

\* C22: in the bulk create of the create screen a group-add failure never
\* changes the create counters: created + failed is the number of users
\* dealt with and N at the end, group_added <= created, a group add is
\* attempted only for a user whose create and password calls both
\* succeeded, and a user whose group add failed stays counted as created.
C22_GroupAddKeepsCounters ==
    TuiBulkRun =>
        LET N == loc.num_users IN
        /\ loc.created_count + loc.failed_count
               = (IF pc \in {"done", "add_user_to_group:admin_add_user_to_group"}
                  THEN loc.i ELSE loc.i - 1)
        /\ pc = "done" => loc.i = N /\ loc.created_count + loc.failed_count = N
        /\ loc.group_added <= loc.created_count
        /\ loc.created_count = Len(SelectSeq(SelectSeq(calls, IsSetPassword), IsOk))
        /\ loc.failed_count = Len(SelectSeq(calls, IsFailedUserCall))
        /\ loc.group_added = Len(SelectSeq(SelectSeq(calls, IsGroupChange), IsOk))
        /\ \A k \in 1..Len(calls) :
               IsGroupChange(calls[k])
                   => /\ FollowsFullCreate(k)
                      /\ calls[k].op = "admin_add_user_to_group"
                      /\ calls[k].GroupName = loc.selected_group
                      /\ Truthy(loc.selected_group)
        /\ ~Truthy(loc.selected_group) => SelectSeq(calls, IsGroupChange) = <<>>

\* Two users were created with a group selected; the group add failed for
\* the first and succeeded for the second, and both count as created.
C22_Witness ==
    /\ TuiBulkRun
    /\ pc = "done"
    /\ loc.num_users = 2
    /\ Len(calls) = 6
    /\ IsFailedGroupAdd(calls[3])
    /\ calls[6].ok
    /\ loc.created_count = 2
    /\ loc.failed_count = 0
    /\ loc.group_added = 1

\* The list_users calls load_users has made in the running handler.
UserListing == ListingCallsOf("load_users")

\* The usernames of the pool in the order in which the service lists them.
ListedUsernames ==
    LET InPool(name) == \E r \in pool : r.Username = name
    IN  SelectSeq(<<"u", "v">> \o ExpectedTestUser, InPool)

\* Row r of the table shows the pool's record of its username.
RowShowsRecord(r) ==
    \E user \in pool :
        /\ table[r][2] = user.Username
        /\ table[r][3] = EmailOf(user.Attributes)
        /\ table[r][4] = user.UserStatus
        /\ table[r][5] = (IF user.Enabled THEN "Yes" ELSE "No")

\* C23: load_users is all or nothing for the table. While pages are being
\* read the table has no rows; after a reload that met a provider error on
\* any page, or found no pool ID, it has none; after a reload that read
\* every page it has one row per listed user, in listing order, and the
\* count in the message is the number of rows.
C23_TableAllOrNothing ==
    LoadUsersRan =>
        /\ pc = "load_users:list_users" => table = <<>>
        /\ ~Truthy(env_pool_id)
               => /\ table = <<>>
                  /\ UserListing = <<>>
                  /\ pc = "done"
        /\ (UserListing # <<>> /\ IsFailed(Last(UserListing)))
               => /\ table = <<>>
                  /\ pc = "done"
        /\ (UserListing # <<>> /\ Last(UserListing).ok /\ pc = "done")
               => /\ ReadToTheEnd(UserListing)
                  /\ [r \in 1..Len(table) |-> table[r][2]] = ListedUsernames
                  /\ Len(table) = Cardinality(pool)
                  /\ \A r \in 1..Len(table) : RowShowsRecord(r)
                  /\ msg = "Loaded " \o ToString(Len(table)) \o " users"
        /\ (Truthy(env_pool_id) /\ pc = "done") => UserListing # <<>>

\* The second page of a reload failed after a first page with a user on
\* it: the table has no rows.
C23_Witness ==
    /\ LoadUsersRan
    /\ Len(UserListing) = 2
    /\ UserListing[1].ok
    /\ IsFailed(UserListing[2])
    /\ Len(loc.users) >= 1
    /\ table = <<>>
    /\ pc = "done"

\* Row r of the table belongs to a user the configuration excludes.
RowIsExcluded(r) ==
    \/ table[r][2] \in ConfiguredExclusions
    \/ table[r][3] \in ConfiguredExclusions

\* The select marker and the selection after toggle_selection acted twice
\* on row r with the selection s.
MarkerAfterTwoToggles(s, r) ==
    ToggledMarker(ToggledSelection(s, table[r][2]), table[r][2])

SelectionAfterTwoToggles(s, r) ==
    ToggledSelection(ToggledSelection(s, table[r][2]), table[r][2])

\* C24: the select marker of each row agrees with the selection: a row
\* shows [X] exactly when its username is in selected_users, a row of an
\* excluded user always shows [E], any other row shows [ ], and toggling a
\* row twice restores both its marker and selected_users.
C24_MarkersAgreeWithSelection ==
    \A r \in 1..Len(table) :
        /\ table[r][1] \in {"[X]", "[ ]", "[E]"}
        /\ table[r][1] = "[X]" <=> table[r][2] \in selected_users
        /\ table[r][1] = "[E]" <=> RowIsExcluded(r)
        /\ (~RowIsExcluded(r) /\ table[r][2] \notin selected_users)
               => table[r][1] = "[ ]"
        /\ \A q \in 1..Len(table) : table[q][2] = table[r][2] => q = r
        /\ table[r][1] # "[E]"
               => /\ SelectionAfterTwoToggles(selected_users, r) = selected_users
                  /\ MarkerAfterTwoToggles(selected_users, r) = table[r][1]

\* After a reload a row was toggled on and off again, next to a row of an
\* excluded user: toggle_selection last acted on a row that now shows [ ].
C24_Witness ==
    /\ prog = "UsersScreen.toggle_selection"
    /\ argv.row \in 1..Len(table)
    /\ table[argv.row][1] = "[ ]"
    /\ table[argv.row][2] \notin selected_users
    /\ \E r \in 1..Len(table) : table[r][1] = "[E]"

\* A TUI session in which AWS_COGNITO_USER_POOL_ID is unset or empty.
TuiWithoutPoolId ==
    /\ session \in {"create_screen", "users_screen", "user_screens", "user_groups"}
    /\ ~Truthy(env_pool_id)

NoPoolIdMessage == "Error: User Pool ID not configured"

\* The handlers that leave every widget but the status bar alone when they
\* stop for the missing pool ID.
MessageOnlyHandlers ==
    {"CreateUserScreen.create_single_user", "CreateUserScreen.create_bulk_users",
     "UsersScreen.action_delete_selected", "UsersScreen.delete_all_users",
     "EditUserScreen.update_password", "EditUserScreen.update_attributes",
     "EditUserScreen.update_status", "EditUserScreen.reset_mfa",
     "EditUserScreen.add_to_group", "EditUserScreen.remove_from_group"}

\* Those of them whose first check is the one of the pool ID.
PoolIdFirstHandlers ==
    {"UsersScreen.delete_all_users", "EditUserScreen.update_attributes",
     "EditUserScreen.update_status", "EditUserScreen.reset_mfa"}

\* The View and Edit buttons of the users screen.
OpeningHandlers == {"UsersScreen.action_view_user", "UsersScreen.action_edit_user"}

\* What holds in every state of a TUI session without pool ID: no handler
\* is past its first step, none made a remote call, the service is as it
\* was, the table is empty, and so neither the view nor the edit screen of
\* a user was opened.
C25_NoPoolIdStates ==
    TuiWithoutPoolId =>
        /\ calls = <<>>
        /\ pc \in {"idle", "done", "mount"}
        /\ pool = pool0
        /\ membership = {}
        /\ prog \in PoolIdFirstHandlers => msg = NoPoolIdMessage
        /\ (prog \in MessageOnlyHandlers /\ msg # NoPoolIdMessage)
               => msg \in {"Error: Email is required",
                           "Error: Number of users is required",
                           "Error: Please enter a valid positive number",
                           "No users selected (use Enter to select)"}
        /\ table = <<>>
        /\ selected_users = {}
        /\ group_options = <<>>
        /\ current_groups = <<>>
        /\ view_text = InitView
        /\ edit_form = InitForm
        /\ edit_username = None
        /\ \A k \in 1..Len(screens) : screens[k] \notin {"view", "edit"}

\* What a step of a TUI session without pool ID leaves alone: the handlers
\* of the buttons change the status message only, View and Edit find no
\* row and open nothing, load_users clears the table and the selection, and
\* the load of the create screen leaves the widgets as composed.
C25_NoPoolIdSteps ==
    TuiWithoutPoolId =>
        /\ UNCHANGED svc
        /\ calls' = <<>>
        /\ prog' \in MessageOnlyHandlers
               => UNCHANGED <<screens, status_below, config_text, table,
                              selected_users, group_options, current_groups,
                              edit_username, edit_form, view_text>>
        /\ prog' \in OpeningHandlers
               => /\ msg' = "No user selected"
                  /\ UNCHANGED <<screens, status_below, config_text, table,
                                 selected_users, group_options, current_groups,
                                 edit_username, edit_form, view_text>>
        /\ prog' \in {"UsersScreen.on_mount", "UsersScreen.action_refresh"}
               => /\ table' = <<>>
                  /\ selected_users' = {}
                  /\ msg' = NoPoolIdMessage
                  /\ UNCHANGED <<screens, status_below, config_text, group_options,
                                 current_groups, edit_username, edit_form, view_text>>
        /\ prog' = "CreateUserScreen.on_mount"
               => UNCHANGED <<msg, screens, status_below, config_text, table,
                              selected_users, group_options, current_groups,
                              edit_username, edit_form, view_text>>

\* C25: in the TUI, when the pool ID is not configured, no action makes a
\* remote call: create single, create bulk, load users, delete selected and
\* delete all stop in their first step; the view and the edit screen, which
\* open from a row of the table, are never shown; and local state other
\* than the status message, and the table and selection that load_users
\* clears, is unchanged.
C25_NoRemoteCallWithoutPoolId ==
    /\ []C25_NoPoolIdStates
    /\ [][C25_NoPoolIdSteps]_vars

\* On the users screen of a session whose pool ID is the empty string,
\* Delete All stopped with the error message.
C25_Witness ==
    /\ TuiWithoutPoolId
    /\ env_pool_id = ""
    /\ Top(screens) = "users"
    /\ prog = "UsersScreen.delete_all_users"
    /\ msg = NoPoolIdMessage
    /\ calls = <<>>
    /\ pc = "done"
====
